---- MODULE Spec2Model ----
(***************************************************************************)
(* Model of the conversation manager (src/conversation.py) and of the AI   *)
(* service manager (src/ai_service.py) of the multi-document chat          *)
(* application.                                                            *)
(*                                                                         *)
(* Text is modelled as a sequence of one-character strings, so that        *)
(* lengths, escaping and joining are computed, not assumed.                *)
(***************************************************************************)
EXTENDS Integers, Sequences, FiniteSets, TLC

\* ------------------------------------------------------------------ bounds

\* Number of add_message calls explored since the last clear_history.
MaxAppends == 4
\* The same, in the specification that also takes exports.
MaxExportAppends == 2

\* The most documents the persisted vector index is let to hold.
MaxStored == 3

\* The longest page or paragraph text explored.
MaxTextLen == 3

\* The most files in a batch given to process_documents.
MaxBatch == 3

\* The most overriding environment variables set at once.
MaxEnvSet == 2

\* The most get_completion calls pending at once.
MaxPending == 2

\* ----------------------------------------------------------- general helpers

None == "None"

Range(s) == {s[i] : i \in 1..Len(s)}

\* Python's s[-k:] on a list: the last k elements, and the WHOLE list when
\* k = 0 (because -0 == 0, the slice is s[0:]) or k >= len(s).
LastSlice(s, k) ==
    IF k = 0 \/ k >= Len(s) THEN s ELSE SubSeq(s, Len(s) - k + 1, Len(s))

\* Python's s[k:] on a list.
DropFront(s, k) == IF k >= Len(s) THEN <<>> ELSE SubSeq(s, k + 1, Len(s))

RECURSIVE Concat(_)
\* The concatenation of a sequence of sequences.
Concat(ss) == IF ss = <<>> THEN <<>> ELSE Head(ss) \o Concat(Tail(ss))

RECURSIVE Join(_, _)
\* Python's sep.join(parts) on character sequences.
Join(sep, parts) ==
    IF parts = <<>> THEN <<>>
    ELSE IF Len(parts) = 1 THEN parts[1]
    ELSE parts[1] \o sep \o Join(sep, Tail(parts))

\* ------------------------------------------------------------ message values

\* Message contents a caller may pass: a short text, and a longer one with the
\* characters JSON has to escape (quote, backslash, line feed).
ShortText == <<"h", "i">>
LongText == <<"a", "\"", "b", "\\", "c", "\n", "d", "e">>
Contents == {ShortText, LongText}

\* BaseMessage.type of HumanMessage and of AIMessage.
MsgTypes == {"human", "ai"}

\* 'source' values of retrieved documents; NoSource is a document whose
\* metadata has no 'source' key.
SourceA == <<"a", ".", "p">>
SourceB == <<"b", "\"">>
Sources == {SourceA, SourceB}
NoSource == <<>>
\* The source_documents arguments explored: None, and lists of documents
\* given by their 'source' (or NoSource).
SourceDocArgs ==
    {<<>>, <<SourceA>>, <<SourceB>>, <<NoSource>>, <<SourceB, SourceA>>}

\* datetime.now().isoformat() values the clock may return.
Times == {<<"T", "1">>, <<"T", "2">>}

\* max_history values drawn for a configuration.
MaxHistories == {0, 1, 2}

\* context_window values drawn for a configuration.
ContextWindows == {0, 3}

VARIABLES
    max_history,              \* self.max_history
    context_window,           \* self.context_window
    include_document_context, \* self.include_document_context
    history,                  \* self.history: sequence of messages
    metadata,                 \* self.metadata
    nAppended,                \* history variable: add_message calls since clear
    passedSources,            \* history variable: 'source' values passed since clear
    onlyAppends,              \* history variable: no trim removed a message since clear
    env,                      \* os.environ: the API-key variables
    serviceNames,             \* the keys of self.services, in insertion order
    services,                 \* self.services: provider -> config and model
    vector_store_type,        \* VectorStoreManager.vector_store_type
    similarity_threshold,     \* VectorStoreManager.similarity_threshold, in tenths
    disk,                     \* the file system under persist_directory
    documents_config,         \* DocumentProcessor.config['documents']
    max_file_size,            \* DocumentProcessor.max_file_size, in bytes
    supported_types,          \* DocumentProcessor.supported_types
    chunk_size,               \* DocumentProcessor.chunk_size
    chunk_overlap,            \* DocumentProcessor.chunk_overlap
    doc_max_tokens,           \* DocumentProcessor.max_tokens
    yaml_config,              \* the content of the file at ConfigManager.config_path
    config,                   \* ConfigManager.config
    generated,                \* the files ConfigGenerator.generate_files wrote
    pending,                  \* the get_completion calls awaiting model.ainvoke
    call,                     \* the call drawn for a document processor or generator
    ret                       \* what the last operation returned

convVars == <<max_history, context_window, include_document_context, history,
              metadata, nAppended, passedSources, onlyAppends>>

aiVars == <<env, serviceNames, services>>

vsVars == <<vector_store_type, similarity_threshold, disk>>

docVars == <<documents_config, max_file_size, supported_types, chunk_size,
             chunk_overlap, doc_max_tokens>>

cfgVars == <<yaml_config, config, generated>>

asyncVars == <<pending>>

vars == <<convVars, aiVars, vsVars, docVars, cfgVars, asyncVars, call, ret>>

\* A message: its type, its content, and seq, the position of its append
\* since the last clear (the identity of the appended object).
Message(type, content, seq) == [type |-> type, content |-> content, seq |-> seq]

\* The metadata dictionary of __init__ and clear_history. document_sources is
\* a Python set: it is kept as the duplicate-free sequence in which the set
\* iterates.
FreshMetadata(now) ==
    [created_at |-> now, total_messages |-> 0, document_sources |-> <<>>]

NoReturn == [op |-> "none"]

\* ------------------------------------------------------------ token counting

\* get_token_count's except branch: len(msg.content) // 4 per message.
FallbackEncoder == [c \in Contents |-> Len(c) \div 4]

\* len(encoding.encode(content)) of the tiktoken encoding: an external table,
\* any positive number of tokens per (non-empty) content.
TiktokenEncoders == [Contents -> {1, 2}]

\* What one process may count tokens with: tiktoken when it imports and
\* loads, the fallback estimate otherwise.
Encoders == TiktokenEncoders \cup {FallbackEncoder}

RECURSIVE get_token_count(_, _)
\* The estimated token count of a message list under encoder enc.
get_token_count(h, enc) ==
    IF h = <<>> THEN 0 ELSE enc[Head(h).content] + get_token_count(Tail(h), enc)

\* ------------------------------------------------------- document sources

\* set.add(x) on the iteration sequence of a set: no change when x is a
\* member, otherwise x appears at some position of the iteration order.
SetAdd(order, x) ==
    IF x \in Range(order) THEN {order}
    ELSE {SubSeq(order, 1, i) \o <<x>> \o SubSeq(order, i + 1, Len(order)) :
            i \in 0..Len(order)}

\* AddSources with a break after the first document that has a 'source'.
AddSourcesFirstOnly(order, docs) ==
    IF docs = <<>> THEN {order}
    ELSE IF Head(docs) = NoSource THEN {order}
    ELSE SetAdd(order, Head(docs))

RECURSIVE AddSources(_, _)
\* The loop of add_message over source_documents: every document that has a
\* 'source' adds it to the set. The result is the set of iteration orders
\* the Python set may end with.
AddSources(order, docs) ==
    IF docs = <<>> THEN {order}
    ELSE IF Head(docs) = NoSource THEN AddSources(order, Tail(docs))
    ELSE UNION {AddSources(o, Tail(docs)) : o \in SetAdd(order, Head(docs))}

\* The 'source' values a source_documents argument carries.
SourcesOf(docs) == Range(docs) \ {NoSource}

\* ----------------------------------------------------------------- actions

\* A cap that keeps the oldest max_history * 2 messages.
CappedKeepsOldest(h, mh) == IF Len(h) > mh * 2 THEN SubSeq(h, 1, mh * 2) ELSE h

\* The history after add_message's cap: self.history[-self.max_history * 2:]
\* when the length exceeds max_history * 2.
Capped(h, mh) == IF Len(h) > mh * 2 THEN LastSlice(h, mh * 2) ELSE h

\* ConversationManager.add_message(message, source_documents)
add_message(type, content, docs) ==
    /\ nAppended < MaxAppends
    /\ LET msg == Message(type, content, nAppended + 1)
           tracked == docs # <<>> /\ include_document_context
       IN /\ history' = Capped(Append(history, msg), max_history)
          /\ \E order \in (IF tracked
                           THEN AddSources(metadata.document_sources, docs)
                           ELSE {metadata.document_sources}) :
                metadata' = [metadata EXCEPT
                                !.total_messages = @ + 1,
                                !.document_sources = order]
          /\ nAppended' = nAppended + 1
          /\ passedSources' = passedSources \cup SourcesOf(docs)
    /\ ret' = NoReturn
    /\ UNCHANGED <<max_history, context_window, include_document_context,
                   onlyAppends, aiVars, vsVars, docVars, cfgVars,
                 asyncVars, call>>

\* ConversationManager.clear_history()
clear_history(now) ==
    /\ history' = <<>>
    /\ metadata' = FreshMetadata(now)
    /\ nAppended' = 0
    /\ passedSources' = {}
    /\ onlyAppends' = TRUE
    /\ ret' = NoReturn
    /\ UNCHANGED <<max_history, context_window, include_document_context, aiVars, vsVars, docVars, cfgVars,
                 asyncVars, call>>

RECURSIVE TrimLoopOneByOne(_, _, _, _)
\* TrimLoop with the slice written [1:]: it drops one message per iteration.
TrimLoopOneByOne(h, enc, cw, n) ==
    IF get_token_count(h, enc) > cw /\ Len(h) >= 2
    THEN TrimLoopOneByOne(DropFront(h, 1), enc, cw, n + 1)
    ELSE [history |-> h, iterations |-> n]

RECURSIVE TrimLoop(_, _, _, _)
\* The while loop of trim_to_token_limit on history h, having run n times:
\* the final history and the number of iterations.
TrimLoop(h, enc, cw, n) ==
    IF get_token_count(h, enc) > cw /\ Len(h) >= 2
    THEN TrimLoop(DropFront(h, 2), enc, cw, n + 1)
    ELSE [history |-> h, iterations |-> n]

\* ConversationManager.trim_to_token_limit(), counting tokens with enc.
trim_to_token_limit(enc) ==
    LET r == IF get_token_count(history, enc) <= context_window
             THEN [history |-> history, iterations |-> 0]
             ELSE TrimLoop(history, enc, context_window, 0)
    IN /\ history' = r.history
       /\ metadata' = [metadata EXCEPT !.total_messages = @ - 2 * r.iterations]
       /\ onlyAppends' = (onlyAppends /\ r.iterations = 0)
       /\ ret' = NoReturn
       /\ UNCHANGED <<max_history, context_window, include_document_context,
                      nAppended, passedSources, aiVars, vsVars, docVars, cfgVars,
                 asyncVars, call>>

\* ------------------------------------------------------------------ exports

\* The decimal digits of a non-negative integer, as str(n) writes them.
DigitChars == <<"0", "1", "2", "3", "4", "5", "6", "7", "8", "9">>

RECURSIVE Digits(_)
\* str(n) for n >= 0.
Digits(n) ==
    IF n < 10 THEN <<DigitChars[n + 1]>>
    ELSE Digits(n \div 10) \o <<DigitChars[(n % 10) + 1]>>

\* The header dictionary of export_to_markdown (keys Created At, Total
\* Messages and, when the source set is not empty, Document Sources) as the
\* lines "- key: value".
MarkdownHeader(md) ==
    <<<<"- Created At: ">> \o md.created_at,
      <<"- Total Messages: ">> \o Digits(md.total_messages)>>
    \o (IF md.document_sources # <<>>
        THEN <<<<"- Document Sources: ">>
               \o Join(<<", ">>, md.document_sources)>>
        ELSE <<>>)

\* One message of export_to_markdown: isinstance(msg, HumanMessage) decides
\* the heading.
MarkdownMessage(msg) ==
    (IF msg.type = "human" THEN <<"\n## User\n">> ELSE <<"\n## Assistant\n">>)
    \o msg.content

\* The text export_to_markdown returns for history h and metadata md.
MarkdownText(h, md) ==
    Join(<<"\n">>,
         <<<<"# Conversation Export\n">>>>
         \o MarkdownHeader(md)
         \o <<<<"\n---\n">>>>
         \o [i \in 1..Len(h) |-> MarkdownMessage(h[i])])

\* One message of export_to_txt.
TxtMessage(msg) ==
    (IF msg.type = "human" THEN <<"User:\n">> ELSE <<"Assistant:\n">>)
    \o msg.content \o <<"\n">>

\* The text export_to_txt returns for history h and metadata md.
TxtText(h, md) ==
    Join(<<"\n">>,
         <<<<"Conversation Export">>,
           <<"==================================================">>,
           <<"Created At: ">> \o md.created_at,
           <<"Total Messages: ">> \o Digits(md.total_messages)>>
         \o (IF md.document_sources # <<>>
             THEN <<<<"Document Sources: ">>
                    \o Join(<<", ">>, md.document_sources)>>
             ELSE <<>>)
         \o <<<<"\n">>>>
         \o [i \in 1..Len(h) |-> TxtMessage(h[i])])

\* JSON text is kept as the sequence of its lexical tokens (the white space
\* that indent=2 puts between tokens is not significant to a JSON reader).
\* A token is a punctuation mark, a string literal holding the characters
\* written between its quotes, or a number literal holding its digits.
Punct(c) == [k |-> "punct", v |-> <<c>>]
StrTok(body) == [k |-> "str", v |-> body]
NumTok(digits) == [k |-> "num", v |-> digits]

\* json.dumps(..., ensure_ascii=False) on one character of a string.
JsonEscapeChar(c) ==
    IF c = "\"" THEN <<"\\", "\"">>
    ELSE IF c = "\\" THEN <<"\\", "\\">>
    ELSE IF c = "\n" THEN <<"\\", "n">>
    ELSE <<c>>

\* The body json.dumps writes between the quotes for string str.
JsonEscape(str) == Concat([i \in 1..Len(str) |-> JsonEscapeChar(str[i])])

\* json.dumps of a str.
JsonString(str) == <<StrTok(JsonEscape(str))>>

\* json.dumps of a non-negative int.
JsonNumber(n) == <<NumTok(Digits(n))>>

RECURSIVE JsonCommaSep(_)
\* The token sequences of the items, separated by commas.
JsonCommaSep(items) ==
    IF items = <<>> THEN <<>>
    ELSE IF Len(items) = 1 THEN items[1]
    ELSE items[1] \o <<Punct(",")>> \o JsonCommaSep(Tail(items))

\* json.dumps of a list whose items are already dumped.
JsonList(items) == <<Punct("[")>> \o JsonCommaSep(items) \o <<Punct("]")>>

\* json.dumps of a dict given as its keys and their dumped values, in
\* insertion order.
JsonObject(keys, vals) ==
    <<Punct("{")>>
    \o JsonCommaSep([i \in 1..Len(keys) |->
                        JsonString(keys[i]) \o <<Punct(":")>> \o vals[i]])
    \o <<Punct("}")>>

\* JsonMessages with the content written from msg.type.
JsonMessagesTypeAsContent(h, now) ==
    JsonList([i \in 1..Len(h) |->
                JsonObject(<<<<"type">>, <<"content">>, <<"timestamp">>>>,
                           <<JsonString(<<h[i].type>>),
                             JsonString(<<h[i].type>>),
                             JsonString(now)>>)])

\* The 'messages' list of export_to_json: type, content and a timestamp
\* taken from the clock when the export runs.
JsonMessages(h, now) ==
    JsonList([i \in 1..Len(h) |->
                JsonObject(<<<<"type">>, <<"content">>, <<"timestamp">>>>,
                           <<JsonString(<<h[i].type>>),
                             JsonString(h[i].content),
                             JsonString(now)>>)])

\* The 'metadata' dictionary of export_to_json: self.metadata with
\* document_sources replaced by list(set).
\* A metadata object whose total_messages is the number of messages
\* exported.
JsonMetadataCountingHistory(md) ==
    JsonObject(<<<<"created_at">>, <<"total_messages">>, <<"document_sources">>>>,
               <<JsonString(md.created_at),
                 JsonNumber(Len(history)),
                 JsonList([i \in 1..Len(md.document_sources) |->
                             JsonString(md.document_sources[i])])>>)

JsonMetadata(md) ==
    JsonObject(<<<<"created_at">>, <<"total_messages">>, <<"document_sources">>>>,
               <<JsonString(md.created_at),
                 JsonNumber(md.total_messages),
                 JsonList([i \in 1..Len(md.document_sources) |->
                             JsonString(md.document_sources[i])])>>)

\* The text export_to_json returns for history h and metadata md when the
\* clock reads now.
JsonText(h, md, now) ==
    JsonObject(<<<<"metadata">>, <<"messages">>>>,
               <<JsonMetadata(md), JsonMessages(h, now)>>)

\* ---- reading JSON back (json.loads), for the round trip of the export

IsPunct(tok, c) == tok.k = "punct" /\ tok.v = <<c>>

RECURSIVE JsonUnescape(_)
\* The string a JSON reader gets from the body of a string literal.
JsonUnescape(body) ==
    IF body = <<>> THEN <<>>
    ELSE IF Head(body) = "\\" /\ Len(body) >= 2
    THEN <<(IF body[2] = "n" THEN "\n" ELSE body[2])>>
         \o JsonUnescape(SubSeq(body, 3, Len(body)))
    ELSE <<Head(body)>> \o JsonUnescape(Tail(body))

RECURSIVE ParseInt(_)
\* int(digits) for a sequence of decimal digits.
ParseInt(digits) ==
    IF digits = <<>> THEN 0
    ELSE 10 * ParseInt(SubSeq(digits, 1, Len(digits) - 1))
         + (CHOOSE d \in 0..9 : DigitChars[d + 1] = digits[Len(digits)])

RECURSIVE ParseValue(_, _), ParseItems(_, _, _), ParseMembers(_, _, _, _)
\* The JSON value that starts at token i, and the index after it.
ParseValue(toks, i) ==
    LET tok == toks[i]
    IN IF tok.k = "str"
       THEN [v |-> [t |-> "str", s |-> JsonUnescape(tok.v)], next |-> i + 1]
       ELSE IF tok.k = "num"
       THEN [v |-> [t |-> "num", n |-> ParseInt(tok.v)], next |-> i + 1]
       ELSE IF IsPunct(tok, "[")
       THEN IF IsPunct(toks[i + 1], "]")
            THEN [v |-> [t |-> "list", items |-> <<>>], next |-> i + 2]
            ELSE ParseItems(toks, i + 1, <<>>)
       ELSE IF IsPunct(toks[i + 1], "}")
            THEN [v |-> [t |-> "obj", keys |-> <<>>, vals |-> <<>>], next |-> i + 2]
            ELSE ParseMembers(toks, i + 1, <<>>, <<>>)

\* The items of a list from token i on, acc being the items read so far.
ParseItems(toks, i, acc) ==
    LET r == ParseValue(toks, i)
    IN IF IsPunct(toks[r.next], ",")
       THEN ParseItems(toks, r.next + 1, Append(acc, r.v))
       ELSE [v |-> [t |-> "list", items |-> Append(acc, r.v)], next |-> r.next + 1]

\* The members of an object from token i on (a key, a colon, a value).
ParseMembers(toks, i, keys, vals) ==
    LET key == JsonUnescape(toks[i].v)
        r == ParseValue(toks, i + 2)
    IN IF IsPunct(toks[r.next], ",")
       THEN ParseMembers(toks, r.next + 1, Append(keys, key), Append(vals, r.v))
       ELSE [v |-> [t |-> "obj", keys |-> Append(keys, key),
                    vals |-> Append(vals, r.v)],
             next |-> r.next + 1]

\* json.loads(text)
JsonLoads(toks) == ParseValue(toks, 1).v

\* obj[key] of a parsed JSON object.
ObjGet(obj, key) ==
    obj.vals[CHOOSE i \in 1..Len(obj.keys) : obj.keys[i] = key]

\* What an export returns. The optional write of the same text to
\* output_path touches no field of the manager and is not part of the state.
Exported(op, text) == [op |-> op, text |-> text]

\* ConversationManager.export_to_markdown()
export_to_markdown ==
    /\ ret' = Exported("export_to_markdown", MarkdownText(history, metadata))
    /\ UNCHANGED <<convVars, aiVars, vsVars, docVars, cfgVars,
                 asyncVars, call>>

\* ConversationManager.export_to_json(), the clock reading now.
export_to_json(now) ==
    /\ ret' = Exported("export_to_json", JsonText(history, metadata, now))
    /\ UNCHANGED <<convVars, aiVars, vsVars, docVars, cfgVars,
                 asyncVars, call>>

\* ConversationManager.export_to_txt()
export_to_txt ==
    /\ ret' = Exported("export_to_txt", TxtText(history, metadata))
    /\ UNCHANGED <<convVars, aiVars, vsVars, docVars, cfgVars,
                 asyncVars, call>>


\* ---------------------------------------------------------- AI service manager

Providers == {"openai", "deepseek", "kimi"}

\* The environment variable _get_model reads for a provider's API key.
EnvVar(p) ==
    IF p = "openai" THEN "OPENAI_API_KEY"
    ELSE IF p = "deepseek" THEN "DEEPSEEK_API_KEY"
    ELSE "KIMI_API_KEY"

EnvVars == {EnvVar(p) : p \in Providers}

\* The defaults of _get_model's config.get calls. Temperatures are in tenths
\* (7 is 0.7).
DefaultTemperature == 7
DefaultMaxRetries == 3
DefaultTimeout == 30
DefaultMaxTokens == 4000

DefaultModel(p) ==
    IF p = "openai" THEN "gpt-3.5-turbo"
    ELSE IF p = "deepseek" THEN "deepseek-chat"
    ELSE "moonshot-v1-8k"

DefaultBaseUrl(p) ==
    IF p = "deepseek" THEN "https://api.deepseek.com/v1"
    ELSE "https://api.moonshot.cn/v1"

\* dict.get(key, default)
DictGet(d, key, default) == IF key \in DOMAIN d THEN d[key] ELSE default

\* Python's "a or b" on an optional string.
PyOr(a, b) == IF a = None \/ a = "" THEN b ELSE a

\* dict.update(updates): the keys of updates replace or extend those of d.
DictUpdate(d, updates) == updates @@ d

\* No cached client: service['model'] is None.
NoModel == [none |-> TRUE]

\* The keyword arguments _get_model passes to ChatOpenAI for provider p with
\* configuration cfg under environment e.
ModelKwargs(p, cfg, e) ==
    LET common == [temperature |-> DictGet(cfg, "temperature", DefaultTemperature),
                   max_retries |-> DictGet(cfg, "max_retries", DefaultMaxRetries),
                   timeout |-> DictGet(cfg, "timeout", DefaultTimeout),
                   max_tokens |-> DictGet(cfg, "max_tokens", DefaultMaxTokens)]
        key == PyOr(DictGet(cfg, "api_key", None), e[EnvVar(p)])
        specific ==
            IF p = "openai"
            THEN [model |-> DictGet(cfg, "model", DefaultModel(p)),
                  api_key |-> key]
            ELSE [model |-> DictGet(cfg, "model", DefaultModel(p)),
                  base_url |-> DictGet(cfg, "base_url", DefaultBaseUrl(p)),
                  api_key |-> key]
    IN DictUpdate(common, specific)

\* Whether ChatOpenAI(**kwargs) returns a client: the OpenAI client needs a
\* key and, given none, falls back to OPENAI_API_KEY; without either the
\* constructor raises.
CanConstruct(kwargs, e) ==
    kwargs.api_key # None \/ e["OPENAI_API_KEY"] # None

\* NotEnabledMessage without the service name in the f-string.
NotEnabledMessageNoName(p) == <<"Service", " is not enabled">>

\* The message of the ValueError for a provider that is not in self.services.
NotEnabledMessage(p) == <<"Service ", p, " is not enabled">>

\* AIServiceManager._get_model(service_name) on service table svcs: how it
\* ends (ok, ValueError for a provider that is not enabled, ConstructError
\* when ChatOpenAI raises), the service table it leaves and the client it
\* returns.
GetModel(svcs, p, e) ==
    IF p \notin DOMAIN svcs
    THEN [outcome |-> "ValueError", services |-> svcs, model |-> NoModel]
    ELSE IF svcs[p].model # NoModel
    THEN [outcome |-> "ok", services |-> svcs, model |-> svcs[p].model]
    ELSE LET kwargs == ModelKwargs(p, svcs[p].config, e)
         IN IF CanConstruct(kwargs, e)
            THEN [outcome |-> "ok",
                  services |-> [svcs EXCEPT ![p].model = kwargs],
                  model |-> kwargs]
            ELSE [outcome |-> "ConstructError", services |-> svcs,
                  model |-> NoModel]

\* What an operation of the manager leaves for its caller: the call (op,
\* the service name and the other arguments), how it ended, the error
\* message when it raised, the value it returned and the requests it sent
\* to provider endpoints.
Returned(op, p, args, outcome, value, requests) ==
    [op |-> op, provider |-> p, args |-> args, outcome |-> outcome,
     message |-> IF outcome = "ValueError" THEN NotEnabledMessage(p) ELSE <<>>,
     value |-> value, requests |-> requests]

\* The request model.ainvoke sends for a client.
Request(p, client) ==
    [provider |-> p, model |-> client.model,
     temperature |-> client.temperature, max_tokens |-> client.max_tokens]

\* The default None of get_completion's temperature and max_tokens
\* parameters, which are numbers when given.
NotGiven == -1

\* Temperature and max_tokens overrides a caller may pass.
TemperatureArgs == {NotGiven, 9}
MaxTokensArgs == {NotGiven, 50}

\* How a request may end: a response, or a failure of the endpoint.
RequestOutcomes == {"ok", "ProviderError"}

\* WithOverrides without the max_tokens assignment.
WithOverridesTemperatureOnly(client, temperature, max_tokens) ==
    IF temperature # NotGiven
    THEN [client EXCEPT !.temperature = temperature] ELSE client

\* The client after get_completion's two assignments.
WithOverrides(client, temperature, max_tokens) ==
    LET c1 == IF temperature # NotGiven
              THEN [client EXCEPT !.temperature = temperature] ELSE client
    IN IF max_tokens # NotGiven THEN [c1 EXCEPT !.max_tokens = max_tokens] ELSE c1

\* get_completion that, when the request fails, silently sends the request
\* again to another enabled provider.
get_completion_SilentRetry(p, temperature, max_tokens, answer) ==
    LET r == GetModel(services, p, env)
    IN /\ IF r.outcome # "ok"
          THEN /\ services' = r.services
               /\ ret' = Returned("get_completion", p, <<temperature, max_tokens>>,
                               r.outcome, None, <<>>)
          ELSE LET client == WithOverrides(r.model, temperature, max_tokens)
                   others == SelectSeq(serviceNames, LAMBDA q : q # p)
                   retry == IF answer = "ProviderError" /\ others # <<>>
                            THEN <<Request(others[1], client)>> ELSE <<>>
               IN /\ services' = [r.services EXCEPT ![p].model = client]
                  /\ ret' = Returned("get_completion", p,
                                     <<temperature, max_tokens>>, answer,
                                     IF answer = "ok" THEN "content" ELSE None,
                                     <<Request(p, client)>> \o retry)
       /\ UNCHANGED <<env, serviceNames, convVars, vsVars, docVars, cfgVars,
                 asyncVars, call>>

\* AIServiceManager.get_completion(service_name, messages, temperature,
\* max_tokens), the request ending as answer says.
get_completion(p, temperature, max_tokens, answer) ==
    LET r == GetModel(services, p, env)
    IN /\ IF r.outcome # "ok"
          THEN /\ services' = r.services
               /\ ret' = Returned("get_completion", p, <<temperature, max_tokens>>,
                               r.outcome, None, <<>>)
          ELSE LET client == WithOverrides(r.model, temperature, max_tokens)
               IN /\ services' = [r.services EXCEPT ![p].model = client]
                  /\ ret' = Returned("get_completion", p,
                                     <<temperature, max_tokens>>, answer,
                                     IF answer = "ok" THEN "content" ELSE None,
                                     <<Request(p, client)>>)
       /\ UNCHANGED <<env, serviceNames, convVars, vsVars, docVars, cfgVars,
                 asyncVars, call>>

\* The updates explored for update_service_config.
ConfigUpdates ==
    {[temperature |-> 2], [api_key |-> None], [api_key |-> "sk-cfg"]}

\* update_service_config without the reset of the cached client.
update_service_config_KeepsClient(p, updates) ==
    /\ IF p \notin DOMAIN services
       THEN /\ services' = services
            /\ ret' = Returned("update_service_config", p, updates,
                            "ValueError", None, <<>>)
       ELSE /\ services' = [services EXCEPT ![p].config = DictUpdate(@, updates)]
            /\ ret' = Returned("update_service_config", p, updates, "ok", None, <<>>)
    /\ UNCHANGED <<env, serviceNames, convVars, vsVars, docVars, cfgVars,
                 asyncVars, call>>

\* AIServiceManager.update_service_config(service_name, updates)
update_service_config(p, updates) ==
    /\ IF p \notin DOMAIN services
       THEN /\ services' = services
            /\ ret' = Returned("update_service_config", p, updates,
                            "ValueError", None, <<>>)
       ELSE /\ services' = [services EXCEPT
                               ![p].config = DictUpdate(@, updates),
                               ![p].model = NoModel]
            /\ ret' = Returned("update_service_config", p, updates, "ok", None, <<>>)
    /\ UNCHANGED <<env, serviceNames, convVars, vsVars, docVars, cfgVars,
                 asyncVars, call>>

\* AIServiceManager.get_service_config(service_name)
get_service_config(p) ==
    /\ IF p \notin DOMAIN services
       THEN ret' = Returned("get_service_config", p, <<>>, "ValueError", None, <<>>)
       ELSE ret' = Returned("get_service_config", p, <<>>, "ok",
                            services[p].config, <<>>)
    /\ UNCHANGED <<aiVars, convVars, vsVars, docVars, cfgVars,
                 asyncVars, call>>

\* The memory_type arguments of create_conversation_chain.
MemoryTypes == {"buffer", "window"}

\* AIServiceManager.create_conversation_chain(service_name, vector_store,
\* memory_type, k): the chain is built around the provider's client.
create_conversation_chain(p, memory_type) ==
    LET r == GetModel(services, p, env)
    IN /\ services' = r.services
       /\ ret' = Returned("create_conversation_chain", p, <<memory_type>>,
                          r.outcome,
                          IF r.outcome = "ok"
                          THEN [llm |-> p,
                                memory |-> IF memory_type = "window"
                                           THEN "window" ELSE "buffer"]
                          ELSE None,
                          <<>>)
       /\ UNCHANGED <<env, serviceNames, convVars, vsVars, docVars, cfgVars,
                 asyncVars, call>>

RECURSIVE AvailableLoopNoCache(_, _, _, _)
\* A loop over the providers that reports the status of each and keeps none
\* of the clients it constructed.
AvailableLoopNoCache(svcs, names, e, status) ==
    IF names = <<>> THEN [services |-> svcs, status |-> status]
    ELSE LET r == GetModel(svcs, Head(names), e)
         IN AvailableLoopNoCache(svcs, Tail(names), e,
                                 status @@ (Head(names) :> (r.outcome = "ok")))

RECURSIVE AvailableLoop(_, _, _, _)
\* The loop of get_available_services over the providers names (the keys of
\* self.services, in order): the status of each, and the service table with
\* the clients the loop constructed.
AvailableLoop(svcs, names, e, status) ==
    IF names = <<>> THEN [services |-> svcs, status |-> status]
    ELSE LET r == GetModel(svcs, Head(names), e)
         IN AvailableLoop(r.services, Tail(names), e,
                          status @@ (Head(names) :> (r.outcome = "ok")))

\* AIServiceManager.get_available_services() as a function of the state.
AvailableServices(svcs, names, e) == AvailableLoop(svcs, names, e, <<>>)

\* AIServiceManager.get_available_services()
get_available_services ==
    LET r == AvailableServices(services, serviceNames, env)
    IN /\ services' = r.services
       /\ ret' = Returned("get_available_services", None, <<>>, "ok", r.status, <<>>)
       /\ UNCHANGED <<env, serviceNames, convVars, vsVars, docVars, cfgVars,
                 asyncVars, call>>

\* list.index(x) counted from 0, and -1 when x is not in the list.
IndexOrMinusOne(names, x) ==
    IF x \in Range(names)
    THEN (CHOOSE i \in 1..Len(names) :
              names[i] = x /\ \A j \in 1..(i - 1) : names[j] # x) - 1
    ELSE -1

RECURSIVE FallbackLoop(_, _, _, _, _)
\* The for loop of get_fallback_service from i on, current_index being ci:
\* the provider it returns (None when the loop ends), the service table
\* left by the get_available_services call of each iteration, and the
\* providers next_service was, in order.
FallbackLoop(svcs, names, e, ci, i) ==
    IF i > Len(names) - 1
    THEN [services |-> svcs, value |-> None, examined |-> <<>>]
    ELSE LET next == names[((ci + i) % Len(names)) + 1]
             av == AvailableServices(svcs, names, e)
         IN IF DictGet(av.status, next, FALSE)
            THEN [services |-> av.services, value |-> next,
                  examined |-> <<next>>]
            ELSE LET r == FallbackLoop(av.services, names, e, ci, i + 1)
                 IN [services |-> r.services, value |-> r.value,
                     examined |-> <<next>> \o r.examined]

\* AIServiceManager.get_fallback_service(current_service)
get_fallback_service(current) ==
    LET r == FallbackLoop(services, serviceNames, env, IndexOrMinusOne(serviceNames, current), 1)
    IN /\ services' = r.services
       /\ ret' = Returned("get_fallback_service", current, <<>>, "ok", r.value, <<>>)
                 @@ [examined |-> r.examined]
       /\ UNCHANGED <<env, serviceNames, convVars, vsVars, docVars, cfgVars,
                 asyncVars, call>>

\* The environments explored: no key variable set, or OPENAI_API_KEY set.
Environments ==
    {[v \in EnvVars |-> None],
     [v \in EnvVars |-> IF v = "OPENAI_API_KEY" THEN "sk-env" ELSE None]}

\* The API keys a provider's section of the configuration file may hold.
ConfiguredKeys == {None, "sk-cfg"}

\* The configurations that enable at most two of the three providers, in the
\* order openai, deepseek, kimi of the configuration file.
FileOrders ==
    {<<>>, <<"openai">>, <<"deepseek">>, <<"kimi">>,
     <<"openai", "deepseek">>, <<"openai", "kimi">>, <<"deepseek", "kimi">>}

\* Every order of every subset of the three providers.
AllOrders ==
    {o \in UNION {[1..n -> Providers] : n \in 0..3} :
        \A i, j \in 1..Len(o) : i # j => o[i] # o[j]}

\* ---- get_completion as a coroutine: the calls that are pending at once

\* A pending call has not built its request yet.
NoRequest == [none |-> TRUE]

\* get_completion up to its await: _get_model, then the two assignments to
\* the client the provider's calls share. The call is pending from here on.
get_completion_begin(p, temperature, max_tokens) ==
    /\ Len(pending) < MaxPending
    /\ LET r == GetModel(services, p, env)
       IN IF r.outcome # "ok"
          THEN /\ services' = r.services
               /\ pending' = pending
               /\ ret' = Returned("get_completion", p, <<temperature, max_tokens>>,
                                  r.outcome, None, <<>>)
          ELSE /\ services' = [r.services EXCEPT
                                  ![p].model = WithOverrides(r.model, temperature,
                                                             max_tokens)]
               /\ pending' = Append(pending,
                                    [provider |-> p, temperature |-> temperature,
                                     max_tokens |-> max_tokens,
                                     request |-> NoRequest])
               /\ ret' = NoReturn
    /\ UNCHANGED <<env, serviceNames, convVars, vsVars, docVars, cfgVars, call>>

\* model.ainvoke(messages) of the i-th pending call builds and sends its
\* request from the attributes the shared client has at that moment.
model_ainvoke(i) ==
    /\ i \in 1..Len(pending)
    /\ pending[i].request = NoRequest
    /\ pending' = [pending EXCEPT
                      ![i].request = Request(pending[i].provider,
                                             services[pending[i].provider].model)]
    /\ ret' = NoReturn
    /\ UNCHANGED <<aiVars, convVars, vsVars, docVars, cfgVars, call>>

\* The response of the i-th pending call arrives and get_completion
\* returns, or the request fails and it raises.
get_completion_end(i, answer) ==
    /\ i \in 1..Len(pending)
    /\ pending[i].request # NoRequest
    /\ pending' = SubSeq(pending, 1, i - 1) \o SubSeq(pending, i + 1, Len(pending))
    /\ ret' = Returned("get_completion", pending[i].provider,
                       <<pending[i].temperature, pending[i].max_tokens>>, answer,
                       IF answer = "ok" THEN "content" ELSE None,
                       <<pending[i].request>>)
    /\ UNCHANGED <<aiVars, convVars, vsVars, docVars, cfgVars, call>>

\* AIServiceManager.__init__(config): _initialize_services enters every
\* enabled provider, in the order of the configuration, with its section of
\* the configuration and no client.
InitServices(orders) ==
    /\ env \in Environments
    /\ serviceNames \in orders
    /\ \E keys \in [Providers -> ConfiguredKeys] :
          services = [p \in Range(serviceNames) |->
                         [config |-> [enabled |-> TRUE, api_key |-> keys[p]],
                          model |-> NoModel]]

\* No AI service manager: nothing enabled.
InitNoServices ==
    /\ env = [v \in EnvVars |-> None]
    /\ serviceNames = <<>>
    /\ services = <<>>

\* ---------------------------------------------------- vector store manager

\* The values of config['vector_store']['type']: 'faiss', and any other
\* value, which selects Chroma.
VectorStoreTypes == {"faiss", "chroma"}

\* The paths under (and including) persist_directory that the manager and
\* the two backends name. FAISS.save_local(folder) makes folder a directory
\* and writes index.faiss and index.pkl into it; Chroma keeps its database
\* in persist_directory itself.
PersistDir == "persist_directory"
FaissFolder == "persist_directory/index_name.faiss"
FaissIndexFile == "persist_directory/index_name.faiss/index.faiss"
FaissPklFile == "persist_directory/index_name.faiss/index.pkl"
SiblingPkl == "persist_directory/index_name.pkl"
ChromaDb == "persist_directory/chroma.sqlite3"

\* The paths that are directories when they exist.
Directories == {PersistDir, FaissFolder}

\* What FAISS.save_local leaves on disk.
FaissFiles == {FaissFolder, FaissIndexFile, FaissPklFile}

\* VectorStoreManager._get_vector_store_path()
VectorStorePath(t) == IF t = "faiss" THEN FaissFolder ELSE PersistDir

\* Path.with_suffix(ext) of the faiss vector store path: the suffix .faiss
\* of index_name.faiss is replaced by ext.
WithSuffix(path, ext) ==
    IF path = FaissFolder
    THEN (IF ext = ".faiss" THEN FaissFolder ELSE SiblingPkl)
    ELSE path

\* Documents handed to the vector store.
Doc1 == [page_content |-> "c1", metadata |-> [source |-> "a.pdf"]]
Doc2 == [page_content |-> "c2", metadata |-> [source |-> "b.pdf"]]

\* The document lists passed to create_vector_store and update_vector_store.
DocumentArgs == {<<Doc1>>, <<Doc2>>, <<Doc1, Doc2>>}

\* A disk: the paths that exist, the documents of the index the index files
\* hold (none when there are no index files), and whether the backend
\* library can read those files (it cannot read a damaged file or one
\* written by an incompatible version).
Disk(files, docs, readable) ==
    [files |-> files, docs |-> docs, readable |-> readable]

\* persist_directory as VectorStoreManager.__init__ creates it.
EmptyDisk == Disk({PersistDir}, <<>>, TRUE)

\* A vector store object: its backend and the documents it holds.
Store(t, docs) == [type |-> t, docs |-> docs]

\* The None that load_vector_store returns in place of a store.
NoStore == [none |-> TRUE]

\* vector_store.save_local(path) of a FAISS store holding docs.
FaissSaveLocal(d, docs) == Disk(d.files \cup {PersistDir} \cup FaissFiles, docs, TRUE)

\* FAISS.load_local(path, embeddings): the store, or the exception raised
\* for a missing or unreadable index file.
FaissLoadLocal(d) ==
    IF {FaissIndexFile, FaissPklFile} \subseteq d.files /\ d.readable
    THEN [disk |-> d, outcome |-> "ok", value |-> Store("faiss", d.docs)]
    ELSE [disk |-> d, outcome |-> "Exception", value |-> NoStore]

\* Chroma(persist_directory=path, ...): opens the database in the directory,
\* creating it with an empty collection when there is none (the collection
\* is got or created); raises for a database it cannot read.
ChromaOpen(d) ==
    IF ChromaDb \in d.files
    THEN IF d.readable
         THEN [disk |-> d, outcome |-> "ok", value |-> Store("chroma", d.docs)]
         ELSE [disk |-> d, outcome |-> "Exception", value |-> NoStore]
    ELSE [disk |-> Disk(d.files \cup {PersistDir, ChromaDb}, <<>>, TRUE),
          outcome |-> "ok", value |-> Store("chroma", <<>>)]

\* The body of load_vector_store's try statement.
LoadUnguarded(t, d) ==
    IF VectorStorePath(t) \notin d.files
    THEN [disk |-> d, outcome |-> "ok", value |-> NoStore]
    ELSE IF t = "faiss" THEN FaissLoadLocal(d) ELSE ChromaOpen(d)

\* load_vector_store handing out, when loading fails, a store with the part
\* of the index read so far.
LoadVectorStorePartial(t, d) ==
    LET r == LoadUnguarded(t, d)
    IN IF r.outcome = "Exception"
       THEN [disk |-> r.disk, outcome |-> "ok",
             value |-> Store(t, SubSeq(d.docs, 1, Len(d.docs) - 1))]
       ELSE r

\* VectorStoreManager.load_vector_store() as a function of the disk: the
\* disk it leaves, how it ends and what it returns; 'except Exception'
\* turns every failure into None.
LoadVectorStore(t, d) ==
    LET r == LoadUnguarded(t, d)
    IN IF r.outcome = "Exception"
       THEN [disk |-> r.disk, outcome |-> "ok", value |-> NoStore]
       ELSE r

\* VectorStoreManager.create_vector_store(documents) as a function of the
\* disk. FAISS.from_documents builds a store of the documents alone and
\* save_local writes it over the index files; Chroma.from_documents opens
\* the database of persist_directory and adds the documents to its
\* collection.
CreateVectorStore(t, d, documents) ==
    IF t = "faiss"
    THEN [disk |-> FaissSaveLocal(d, documents), outcome |-> "ok",
          value |-> Store("faiss", documents)]
    ELSE LET r == ChromaOpen(d)
         IN IF r.outcome = "Exception" THEN r
            ELSE LET docs == r.disk.docs \o documents
                 IN [disk |-> [r.disk EXCEPT !.docs = docs], outcome |-> "ok",
                     value |-> Store("chroma", docs)]

\* VectorStoreManager.update_vector_store(documents) as a function of the
\* disk.
UpdateVectorStore(t, d, documents) ==
    LET l == LoadVectorStore(t, d)
    IN IF l.value = NoStore
       THEN CreateVectorStore(t, l.disk, documents)
       ELSE LET docs == l.value.docs \o documents
            IN [disk |-> IF t = "faiss" THEN FaissSaveLocal(l.disk, docs)
                         ELSE [l.disk EXCEPT !.docs = docs],
                outcome |-> "ok", value |-> Store(t, docs)]

RECURSIVE ClearLoop(_, _)
\* The loop of clear_vector_store over the suffixes exts for faiss:
\* Path.unlink() raises for a path that is a directory.
ClearLoop(d, exts) ==
    IF exts = <<>> THEN [disk |-> d, outcome |-> "ok", value |-> None]
    ELSE LET file_path == WithSuffix(FaissFolder, Head(exts))
         IN IF file_path \in d.files
            THEN IF file_path \in Directories
                 THEN [disk |-> d, outcome |-> "OSError", value |-> None]
                 ELSE ClearLoop([d EXCEPT !.files = @ \ {file_path}], Tail(exts))
            ELSE ClearLoop(d, Tail(exts))

\* VectorStoreManager.clear_vector_store() as a function of the disk;
\* shutil.rmtree removes persist_directory with everything in it.
ClearVectorStore(t, d) ==
    IF t = "faiss" THEN ClearLoop(d, <<".faiss", ".pkl">>)
    ELSE IF PersistDir \in d.files
         THEN [disk |-> Disk({}, <<>>, TRUE), outcome |-> "ok", value |-> None]
         ELSE [disk |-> d, outcome |-> "ok", value |-> None]

\* VectorStoreManager.get_vector_store_stats() as a function of the disk;
\* os.path.getsize raises for a path that does not exist, which the try
\* statement turns into status 'error'.
VectorStoreStats(t, d) ==
    LET l == LoadVectorStore(t, d)
    IN [disk |-> l.disk, outcome |-> "ok",
        value |->
          IF l.value = NoStore
          THEN [status |-> "not_found", document_count |-> 0]
          ELSE IF t = "faiss"
               THEN IF WithSuffix(FaissFolder, ".faiss") \in l.disk.files
                    THEN [status |-> "loaded",
                          document_count |-> Len(l.value.docs),
                          index_type |-> "faiss"]
                    ELSE [status |-> "error", document_count |-> 0]
               ELSE [status |-> "loaded",
                     document_count |-> Len(l.value.docs),
                     index_type |-> "chroma"]]

\* What an operation of the vector store manager leaves for its caller.
VsReturned(op, args, r) ==
    [op |-> op, args |-> args, outcome |-> r.outcome, value |-> r.value]

\* VectorStoreManager.load_vector_store()
load_vector_store ==
    LET r == LoadVectorStore(vector_store_type, disk)
    IN /\ disk' = r.disk
       /\ ret' = VsReturned("load_vector_store", <<>>, r)
       /\ UNCHANGED <<vector_store_type, similarity_threshold, convVars, aiVars, docVars, cfgVars,
                 asyncVars, call>>

\* VectorStoreManager.create_vector_store(documents)
create_vector_store(documents) ==
    LET r == CreateVectorStore(vector_store_type, disk, documents)
    IN /\ Len(r.disk.docs) <= MaxStored
       /\ disk' = r.disk
       /\ ret' = VsReturned("create_vector_store", documents, r)
       /\ UNCHANGED <<vector_store_type, similarity_threshold, convVars, aiVars, docVars, cfgVars,
                 asyncVars, call>>

\* VectorStoreManager.update_vector_store(documents)
update_vector_store(documents) ==
    LET r == UpdateVectorStore(vector_store_type, disk, documents)
    IN /\ Len(r.disk.docs) <= MaxStored
       /\ disk' = r.disk
       /\ ret' = VsReturned("update_vector_store", documents, r)
       /\ UNCHANGED <<vector_store_type, similarity_threshold, convVars, aiVars, docVars, cfgVars,
                 asyncVars, call>>

\* VectorStoreManager.clear_vector_store()
clear_vector_store ==
    LET r == ClearVectorStore(vector_store_type, disk)
    IN /\ disk' = r.disk
       /\ ret' = VsReturned("clear_vector_store", <<>>, r)
       /\ UNCHANGED <<vector_store_type, similarity_threshold, convVars, aiVars, docVars, cfgVars,
                 asyncVars, call>>

\* VectorStoreManager.get_vector_store_stats()
get_vector_store_stats ==
    LET r == VectorStoreStats(vector_store_type, disk)
    IN /\ disk' = r.disk
       /\ ret' = VsReturned("get_vector_store_stats", <<>>, r)
       /\ UNCHANGED <<vector_store_type, similarity_threshold, convVars, aiVars, docVars, cfgVars,
                 asyncVars, call>>

\* The distances (FAISS scores), in tenths, a query may have to a document.
Distances == {1, 5}

\* A query, given by its distance to each document content.
Queries == [{Doc1.page_content, Doc2.page_content} -> Distances]

\* The k arguments of similarity_search.
Ks == {1, 2}

\* No filter_dict: None or the empty dict, both false in 'if filter_dict'.
NoFilter == <<>>

\* The filter_dict arguments of similarity_search.
Filters == {NoFilter, [source |-> "a.pdf"]}

\* The contents of the store passed to similarity_search.
StoreContents == {<<>>, <<Doc1>>, <<Doc1, Doc2>>, <<Doc2, Doc1, Doc2>>}

\* Whether a document passes a metadata filter.
Matches(doc, filter_dict) ==
    \A key \in DOMAIN filter_dict : doc.metadata[key] = filter_dict[key]

RECURSIVE NearestFirst(_, _)
\* The documents docs ordered by their distance to the query, nearest
\* first, documents at the same distance in the order of the store.
NearestFirst(docs, query) ==
    IF docs = <<>> THEN <<>>
    ELSE LET i == CHOOSE i \in 1..Len(docs) :
                    /\ \A j \in 1..Len(docs) :
                          query[docs[i].page_content] <= query[docs[j].page_content]
                    /\ \A j \in 1..(i - 1) :
                          query[docs[j].page_content] # query[docs[i].page_content]
             rest == [j \in 1..(Len(docs) - 1) |-> IF j < i THEN docs[j] ELSE docs[j + 1]]
         IN <<docs[i]>> \o NearestFirst(rest, query)

\* The first k elements of a list.
FirstK(s, k) == SubSeq(s, 1, IF k < Len(s) THEN k ELSE Len(s))

\* vector_store.similarity_search(query, k=k, filter=filter_dict) of either
\* backend: the k nearest of the documents that pass the filter.
StoreSearch(docs, query, k, filter_dict) ==
    FirstK(NearestFirst(SelectSeq(docs, LAMBDA doc : Matches(doc, filter_dict)),
                        query), k)

\* vector_store.similarity_search_with_score(query, k=k) of a FAISS store:
\* the k nearest documents, each with its distance.
StoreSearchWithScore(docs, query, k) ==
    LET found == StoreSearch(docs, query, k, NoFilter)
    IN [i \in 1..Len(found) |->
           [doc |-> found[i], score |-> query[found[i].page_content]]]

\* The list comprehension of similarity_search: the documents whose
\* 1 - score is at least the threshold (scores and threshold in tenths).
ScoredAtLeast(docs_with_scores, threshold) ==
    LET kept == SelectSeq(docs_with_scores,
                          LAMBDA ds : 10 - ds.score >= threshold)
    IN [i \in 1..Len(kept) |-> kept[i].doc]

\* VectorStoreManager.similarity_search(query, vector_store, k, filter_dict)
\* as a function of its arguments and the manager's configuration.
SimilaritySearch(t, threshold, query, docs, k, filter_dict) ==
    LET results == StoreSearch(docs, query, k,
                               IF filter_dict # NoFilter THEN filter_dict ELSE NoFilter)
    IN IF threshold > 0 /\ t = "faiss"
       THEN ScoredAtLeast(StoreSearchWithScore(docs, query, k), threshold)
       ELSE results

\* VectorStoreManager.similarity_search(query, vector_store, k, filter_dict)
similarity_search(query, docs, k, filter_dict) ==
    /\ ret' = [op |-> "similarity_search",
               args |-> [query |-> query, docs |-> docs, k |-> k,
                         filter_dict |-> filter_dict],
               outcome |-> "ok",
               value |-> SimilaritySearch(vector_store_type, similarity_threshold,
                                          query, docs, k, filter_dict)]
    /\ UNCHANGED <<vsVars, convVars, aiVars, docVars, cfgVars,
                 asyncVars, call>>

\* The similarity_threshold values drawn for a configuration, in tenths: no
\* threshold, the default 0.7, and 0.9.
Thresholds == {0, 7, 9}

\* The disks a manager may find when it is constructed: persist_directory
\* freshly created, or holding the index an earlier run of the same backend
\* left, which the backend library can or cannot read.
InitialDisks(t) ==
    {EmptyDisk} \cup
    {Disk({PersistDir} \cup (IF t = "faiss" THEN FaissFiles ELSE {ChromaDb}),
          <<Doc1>>, readable) : readable \in BOOLEAN}

\* VectorStoreManager.__init__(config)
InitVectorStore ==
    /\ vector_store_type \in VectorStoreTypes
    /\ similarity_threshold \in Thresholds
    /\ disk \in InitialDisks(vector_store_type)

\* A vector store manager that is not used.
InitVectorStoreIdle ==
    /\ vector_store_type = "faiss"
    /\ similarity_threshold = 7
    /\ disk = EmptyDisk

\* -------------------------------------------------------- document processor

\* str.lower() of one character, for the characters of the file names
\* explored.
LowerChar(c) ==
    CASE c = "P" -> "p"
      [] c = "D" -> "d"
      [] c = "F" -> "f"
      [] c = "T" -> "t"
      [] c = "R" -> "r"
      [] c = "U" -> "u"
      [] c = "E" -> "e"
      [] OTHER -> c

\* str.lower()
Lower(s) == [i \in 1..Len(s) |-> LowerChar(s[i])]

\* os.path.splitext(name)[1] for a name without directory part: the text
\* from the last dot on, and nothing when there is no dot or only leading
\* dots precede it.
SplitExt(name) ==
    LET dots == {i \in 1..Len(name) : name[i] = "."}
        first == IF \E i \in 1..Len(name) : name[i] # "."
                 THEN CHOOSE i \in 1..Len(name) :
                         name[i] # "." /\ \A j \in 1..(i - 1) : name[j] = "."
                 ELSE Len(name) + 1
        after == {i \in dots : i > first}
    IN IF after = {} THEN <<>>
       ELSE LET last == CHOOSE i \in after : \A j \in after : j <= i
            IN SubSeq(name, last, Len(name))

\* os.path.splitext(file.name)[1][1:].lower()
FileExt(name) == Lower(DropFront(SplitExt(name), 1))

\* Extensions as configured in supported_types.
Pdf == <<"p", "d", "f">>
Doc == <<"d", "o", "c">>
Txt == <<"t", "x", "t">>

\* The file names explored.
FileNames ==
    {<<"a", ".">> \o Pdf, <<"a", ".", "P", "D", "F">>, <<"a", ".">> \o Txt,
     <<"a">>, <<".">> \o Pdf, <<"a", ".", "b", ".">> \o Doc}

\* 1024 * 1024
BytesPerMB == 1048576

\* config['documents']['max_file_size'] values drawn for a configuration,
\* in MB.
MaxFileSizesMB == {1, 2}

\* The lengths in bytes of the uploaded contents explored.
FileLengths == {BytesPerMB, BytesPerMB + 1, 2 * BytesPerMB + 1}

\* The uploaded files explored: a name, the content (given by its length),
\* and whether the object has a size attribute (an UploadedFile has one,
\* holding the length; a BytesIO with a name has none).
Files ==
    [name : FileNames, length : FileLengths, has_size : BOOLEAN]

\* The falsy file argument.
NoFile == [none |-> TRUE]

\* config['documents']['supported_types'] values drawn for a configuration.
SupportedTypeLists == {<<Pdf, Doc>>, <<Pdf, Txt>>}

\* The outcome of a call that raises ValueError(message).
Raise(message) == [outcome |-> "ValueError", message |-> message, value |-> None]

\* validate_file without the lower-casing of the extension.
ValidateFileCaseSensitive(file, cfg, max_size, types) ==
    IF file = NoFile THEN Raise(<<"No file provided">>)
    ELSE IF file.has_size /\ file.length > max_size
    THEN Raise(<<"File size exceeds limit (">> \o Digits(cfg.max_file_size) \o <<"MB)">>)
    ELSE LET file_ext == DropFront(SplitExt(file.name), 1)
         IN IF file_ext \notin Range(types)
            THEN Raise(<<"Unsupported file type: ">> \o file_ext)
            ELSE [outcome |-> "ok", message |-> <<>>, value |-> None]

\* DocumentProcessor.validate_file(file) as a function of the file and of
\* the processor's configuration.
ValidateFile(file, cfg, max_size, types) ==
    IF file = NoFile THEN Raise(<<"No file provided">>)
    ELSE IF file.has_size /\ file.length > max_size
    THEN Raise(<<"File size exceeds limit (">> \o Digits(cfg.max_file_size) \o <<"MB)">>)
    ELSE LET file_ext == FileExt(file.name)
         IN IF file_ext \notin Range(types)
            THEN Raise(<<"Unsupported file type: ">> \o file_ext)
            ELSE [outcome |-> "ok", message |-> <<>>, value |-> None]

\* What an operation of the document processor leaves for its caller.
DocReturned(op, file, r) ==
    [op |-> op, file |-> file, outcome |-> r.outcome, message |-> r.message,
     value |-> r.value]

\* DocumentProcessor.validate_file(file)
validate_file(file) ==
    /\ ret' = DocReturned("validate_file", file,
                          ValidateFile(file, documents_config, max_file_size,
                                       supported_types))
    /\ UNCHANGED <<docVars, convVars, aiVars, vsVars, cfgVars,
                 asyncVars, call>>

\* How the PdfReader or docx Document reader may end.
ExtractionOutcomes == {"ok", "fails"}

\* The characters of the texts explored: two letters, the space and the
\* newline.
TextChars == {"a", "b", " ", "\n"}

\* The characters str.strip() removes.
Whitespace == {" ", "\n"}

\* The texts of at most n characters.
TextsUpTo(n) == UNION {[1..l -> TextChars] : l \in 0..n}

\* The page texts (page.extract_text()) and paragraph texts explored.
Texts == TextsUpTo(MaxTextLen)

\* The pages of a PDF or the paragraphs of a Word document, as the readers
\* return them.
PageLists == {<<>>} \cup {<<t>> : t \in Texts}

RECURSIVE ExtractPdfText(_)
\* _extract_pdf_text(file) when the reader succeeds: every page with some
\* text, followed by a newline.
ExtractPdfText(pages) ==
    IF pages = <<>> THEN <<>>
    ELSE (IF Head(pages) # <<>> THEN Head(pages) \o <<"\n">> ELSE <<>>)
         \o ExtractPdfText(Tail(pages))

RECURSIVE ExtractDocxText(_)
\* _extract_docx_text(file) when the reader succeeds: every paragraph
\* followed by a newline.
ExtractDocxText(paragraphs) ==
    IF paragraphs = <<>> THEN <<>>
    ELSE Head(paragraphs) \o <<"\n">> \o ExtractDocxText(Tail(paragraphs))

\* ---- RecursiveCharacterTextSplitter(chunk_size, chunk_overlap,
\* ---- length_function=len, separators=["\n\n", "\n", " ", ""]), with the
\* ---- library defaults keep_separator=True and strip_whitespace=True

\* separators=["\n\n", "\n", " ", ""]
Separators == << <<"\n", "\n">>, <<"\n">>, <<" ">>, <<>> >>

RECURSIVE LStrip(_)
\* str.lstrip()
LStrip(s) ==
    IF s # <<>> /\ Head(s) \in Whitespace THEN LStrip(Tail(s)) ELSE s

RECURSIVE RStrip(_)
\* str.rstrip()
RStrip(s) ==
    IF s # <<>> /\ s[Len(s)] \in Whitespace
    THEN RStrip(SubSeq(s, 1, Len(s) - 1)) ELSE s

\* str.strip()
Strip(s) == RStrip(LStrip(s))

\* text.startswith(sep)
StartsWith(text, sep) ==
    Len(sep) <= Len(text) /\ SubSeq(text, 1, Len(sep)) = sep

\* re.search(re.escape(sep), text) finds an occurrence.
Found(sep, text) ==
    \E i \in 1..Len(text) + 1 : StartsWith(SubSeq(text, i, Len(text)), sep)

RECURSIVE SplitPieces(_, _, _)
\* re.split of the text on a non-empty separator, each separator put at the
\* start of the piece that follows it: cur is the piece being read.
SplitPieces(text, sep, cur) ==
    IF text = <<>> THEN <<cur>>
    ELSE IF StartsWith(text, sep)
    THEN <<cur>> \o SplitPieces(SubSeq(text, Len(sep) + 1, Len(text)), sep, sep)
    ELSE SplitPieces(Tail(text), sep, cur \o <<Head(text)>>)

\* _split_text_with_regex(text, separator, keep_separator=True): the pieces
\* that are not empty; the empty separator splits into characters.
SplitTextWithRegex(text, separator) ==
    IF separator = <<>> THEN [i \in 1..Len(text) |-> <<text[i]>>]
    ELSE SelectSeq(SplitPieces(text, separator, <<>>), LAMBDA s : s # <<>>)

\* _join_docs(docs, separator): the joined and stripped text, None (here the
\* empty list of chunks) when nothing is left.
JoinDocs(docs, separator) ==
    LET text == Strip(Join(separator, docs))
    IN IF text = <<>> THEN <<>> ELSE <<text>>

RECURSIVE PopLoop(_, _, _, _, _, _)
\* The while loop of _merge_splits, which drops pieces from the front of
\* current_doc until what is left fits the overlap and leaves room for the
\* next piece of length len.
PopLoop(current_doc, total, len, separator_len, size, overlap) ==
    IF \/ total > overlap
       \/ /\ total + len + (IF Len(current_doc) > 0 THEN separator_len ELSE 0)
                > size
          /\ total > 0
    THEN PopLoop(Tail(current_doc),
                 total - (Len(current_doc[1])
                          + (IF Len(current_doc) > 1 THEN separator_len ELSE 0)),
                 len, separator_len, size, overlap)
    ELSE [current_doc |-> current_doc, total |-> total]

RECURSIVE MergeLoop(_, _, _, _, _, _, _)
\* The for loop of _merge_splits and its final flush.
MergeLoop(splits, docs, current_doc, total, separator, size, overlap) ==
    IF splits = <<>> THEN docs \o JoinDocs(current_doc, separator)
    ELSE LET d == Head(splits)
             len == Len(d)
             separator_len == Len(separator)
             full == total + len
                     + (IF Len(current_doc) > 0 THEN separator_len ELSE 0)
                     > size
             flush == full /\ Len(current_doc) > 0
             kept == IF flush
                     THEN PopLoop(current_doc, total, len, separator_len,
                                  size, overlap)
                     ELSE [current_doc |-> current_doc, total |-> total]
             next_doc == kept.current_doc \o <<d>>
         IN MergeLoop(Tail(splits),
                      IF flush THEN docs \o JoinDocs(current_doc, separator)
                      ELSE docs,
                      next_doc,
                      kept.total + len
                      + (IF Len(next_doc) > 1 THEN separator_len ELSE 0),
                      separator, size, overlap)

\* _merge_splits(splits, separator)
MergeSplits(splits, separator, size, overlap) ==
    MergeLoop(splits, <<>>, <<>>, 0, separator, size, overlap)

\* The index of the separator _split_text picks: the first that is empty or
\* occurs in the text, the last one when there is none.
PickSeparator(text, separators) ==
    IF \E i \in 1..Len(separators) :
          separators[i] = <<>> \/ Found(separators[i], text)
    THEN CHOOSE i \in 1..Len(separators) :
            /\ separators[i] = <<>> \/ Found(separators[i], text)
            /\ \A j \in 1..(i - 1) :
                  separators[j] # <<>> /\ ~Found(separators[j], text)
    ELSE Len(separators)

RECURSIVE SplitText(_, _, _, _)
RECURSIVE SplitLoop(_, _, _, _, _, _)
\* _split_text(text, separators)
SplitText(text, separators, size, overlap) ==
    LET i == PickSeparator(text, separators)
        separator == separators[i]
        new_separators ==
            IF separator = <<>> \/ ~Found(separator, text) THEN <<>>
            ELSE SubSeq(separators, i + 1, Len(separators))
    IN SplitLoop(SplitTextWithRegex(text, separator), <<>>, <<>>,
                 new_separators, size, overlap)

\* The loop of _split_text over the pieces: the pieces shorter than the
\* chunk size are collected and merged, a longer one is split with the
\* separators that are left, or kept as it is when none is left.
SplitLoop(splits, good_splits, final_chunks, new_separators, size, overlap) ==
    LET merged == IF good_splits # <<>>
                  THEN MergeSplits(good_splits, <<>>, size, overlap)
                  ELSE <<>>
    IN IF splits = <<>> THEN final_chunks \o merged
       ELSE LET s == Head(splits)
            IN IF Len(s) < size
               THEN SplitLoop(Tail(splits), good_splits \o <<s>>, final_chunks,
                              new_separators, size, overlap)
               ELSE SplitLoop(Tail(splits), <<>>,
                              final_chunks \o merged
                              \o (IF new_separators = <<>> THEN <<s>>
                                  ELSE SplitText(s, new_separators, size,
                                                 overlap)),
                              new_separators, size, overlap)

\* text_splitter.split_text(text)
split_text(text, size, overlap) == SplitText(text, Separators, size, overlap)

\* The chunk documents process_document builds: each chunk with the file's
\* metadata, its index and the number of chunks.
ChunkDocuments(chunks, file_metadata) ==
    [i \in 1..Len(chunks) |->
        [page_content |-> chunks[i],
         metadata |-> file_metadata @@
                      [chunk |-> i - 1, total_chunks |-> Len(chunks)]]]

\* DocumentProcessor.process_document(file) as a function of the file, of
\* the configuration, of how the text extraction ends, of the pages or
\* paragraphs the reader returns and of the clock.
ProcessDocument(file, cfg, max_size, types, size, overlap, extraction, pages, now) ==
    LET v == ValidateFile(file, cfg, max_size, types)
    IN IF v.outcome # "ok" THEN v
       ELSE LET file_ext == FileExt(file.name)
            IN IF file_ext = Pdf /\ extraction = "fails"
               THEN Raise(<<"Error processing PDF: ">>)
               ELSE IF file_ext \in {<<"d", "o", "c", "x">>, Doc} /\ extraction = "fails"
               THEN Raise(<<"Error processing Word document: ">>)
               ELSE IF file_ext \notin {Pdf, <<"d", "o", "c", "x">>, Doc}
               THEN Raise(<<"Unsupported file type: ">> \o file_ext)
               ELSE LET text == IF file_ext = Pdf THEN ExtractPdfText(pages)
                                ELSE ExtractDocxText(pages)
                        chunks == split_text(text, size, overlap)
                        file_metadata ==
                                    [source |-> file.name,
                                     file_hash |-> <<"md5", file.length>>,
                                     type |-> file_ext,
                                     processed_at |-> now,
                                     size |-> file.length,
                                     chunks |-> Len(chunks)]
                    IN [outcome |-> "ok", message |-> <<>>,
                        value |-> [documents |->
                                      ChunkDocuments(chunks, file_metadata),
                                   metadata |-> file_metadata]]

\* What process_document returned or raised, with the text it extracted
\* from.
ProcessReturned(file, extraction, pages, r) ==
    [op |-> "process_document", file |-> file, extraction |-> extraction,
     pages |-> pages, outcome |-> r.outcome, message |-> r.message,
     value |-> r.value]

\* DocumentProcessor.process_document(file)
process_document(file, extraction, pages, now) ==
    /\ ret' = ProcessReturned(file, extraction, pages,
                  ProcessDocument(file, documents_config, max_file_size,
                                  supported_types, chunk_size, chunk_overlap,
                                  extraction, pages, now))
    /\ UNCHANGED <<docVars, convVars, aiVars, vsVars, cfgVars,
                 asyncVars, call>>

RECURSIVE ProcessLoop(_, _, _, _, _, _, _, _, _, _, _)
\* The loop of process_documents over the files: the first file whose
\* process_document raises ends the call with a ValueError naming it.
ProcessLoop(files, cfg, max_size, types, size, overlap, extractions, pagess, now, all_documents, all_metadata) ==
    IF files = <<>>
    THEN [outcome |-> "ok", message |-> <<>>,
          value |-> [documents |-> all_documents, metadata |-> all_metadata]]
    ELSE LET r == ProcessDocument(Head(files), cfg, max_size, types, size,
                                  overlap, Head(extractions), Head(pagess), now)
         IN IF r.outcome # "ok"
            THEN Raise(<<"Error processing ">> \o Head(files).name \o <<": ">>
                       \o r.message)
            ELSE ProcessLoop(Tail(files), cfg, max_size, types, size, overlap,
                             Tail(extractions), Tail(pagess), now,
                             all_documents \o r.value.documents,
                             Append(all_metadata, r.value.metadata))

\* DocumentProcessor.process_documents(files) as a function of the files, of
\* the configuration, and of how the extraction of each file ends and what
\* it reads.
ProcessDocuments(files, cfg, max_size, types, size, overlap, extractions, pagess, now) ==
    IF files = <<>> THEN Raise(<<"No documents provided">>)
    ELSE ProcessLoop(files, cfg, max_size, types, size, overlap, extractions,
                     pagess, now, <<>>, <<>>)

\* DocumentProcessor.process_documents(files)
process_documents(files, extractions, pagess, now) ==
    /\ ret' = LET r == ProcessDocuments(files, documents_config, max_file_size,
                                        supported_types, chunk_size,
                                        chunk_overlap, extractions, pagess, now)
              IN [op |-> "process_documents", files |-> files,
                  extractions |-> extractions, pagess |-> pagess, now |-> now,
                  outcome |-> r.outcome, message |-> r.message,
                  value |-> r.value]
    /\ UNCHANGED <<docVars, convVars, aiVars, vsVars, cfgVars,
                 asyncVars, call>>

\* The token count tiktoken gives a text, taken as one token per character
\* (the most a byte-pair encoding gives an ASCII text).
TiktokenLen(text) == Len(text)

\* DocumentProcessor.estimate_tokens(text): the tiktoken count, or a quarter
\* of the length when tiktoken cannot be imported or used.
EstimateTokens(text, tiktoken) ==
    IF tiktoken THEN TiktokenLen(text) ELSE Len(text) \div 4

\* A loop over the sub-chunks that keeps every one of them.
SubChunkLoopKeepAll(sub_chunks, doc, ceiling, tiktoken) ==
    [i \in 1..Len(sub_chunks) |->
        [page_content |-> sub_chunks[i], metadata |-> doc.metadata]]

RECURSIVE SubChunkLoop(_, _, _, _)
\* The loop of validate_token_limits over the sub-chunks of an oversized
\* document: those within the ceiling, with the document's metadata.
SubChunkLoop(sub_chunks, doc, ceiling, tiktoken) ==
    IF sub_chunks = <<>> THEN <<>>
    ELSE (IF EstimateTokens(Head(sub_chunks), tiktoken) <= ceiling
          THEN <<[page_content |-> Head(sub_chunks), metadata |-> doc.metadata]>>
          ELSE <<>>)
         \o SubChunkLoop(Tail(sub_chunks), doc, ceiling, tiktoken)

\* The documents validate_token_limits appends for one input document.
ValidatedDoc(doc, ceiling, size, overlap, tiktoken) ==
    IF EstimateTokens(doc.page_content, tiktoken) <= ceiling THEN <<doc>>
    ELSE SubChunkLoop(split_text(doc.page_content, size, overlap), doc,
                      ceiling, tiktoken)

RECURSIVE ValidateTokenLimits(_, _, _, _, _)
\* DocumentProcessor.validate_token_limits(documents)
ValidateTokenLimits(documents, ceiling, size, overlap, tiktoken) ==
    IF documents = <<>> THEN <<>>
    ELSE ValidatedDoc(Head(documents), ceiling, size, overlap, tiktoken)
         \o ValidateTokenLimits(Tail(documents), ceiling, size, overlap,
                                tiktoken)

\* DocumentProcessor.validate_token_limits(documents)
validate_token_limits(documents, tiktoken) ==
    /\ ret' = [op |-> "validate_token_limits", documents |-> documents,
               tiktoken |-> tiktoken, outcome |-> "ok",
               value |-> ValidateTokenLimits(documents, doc_max_tokens, chunk_size,
                                             chunk_overlap, tiktoken)]
    /\ UNCHANGED <<docVars, convVars, aiVars, vsVars, cfgVars,
                 asyncVars, call>>

\* The chunk sizes, overlaps and token ceilings drawn for a configuration.
ChunkSizes == {1, 2, 3, 4}
ChunkOverlaps == {0, 1, 2, 3, 4}
TokenCeilings == {0, 2}

\* DocumentProcessor.__init__(config) for the validation of files: the size
\* limit and the supported types vary.
InitDocuments ==
    /\ documents_config \in
          [max_file_size : MaxFileSizesMB, supported_types : SupportedTypeLists,
           chunk_size : {3}, chunk_overlap : {1}, max_tokens : {1}]
    /\ max_file_size = documents_config.max_file_size * 1024 * 1024
    /\ supported_types = documents_config.supported_types
    /\ chunk_size = documents_config.chunk_size
    /\ chunk_overlap = documents_config.chunk_overlap
    /\ doc_max_tokens = documents_config.max_tokens

\* DocumentProcessor.__init__(config) for the chunking: the chunk size, the
\* overlap and the token ceiling vary. RecursiveCharacterTextSplitter
\* refuses an overlap larger than the chunk size.
InitChunking ==
    /\ documents_config \in
          {c \in [max_file_size : {1}, supported_types : {<<Pdf, Doc>>},
                  chunk_size : ChunkSizes, chunk_overlap : ChunkOverlaps,
                  max_tokens : TokenCeilings] :
              c.chunk_overlap <= c.chunk_size}
    /\ max_file_size = documents_config.max_file_size * 1024 * 1024
    /\ supported_types = documents_config.supported_types
    /\ chunk_size = documents_config.chunk_size
    /\ chunk_overlap = documents_config.chunk_overlap
    /\ doc_max_tokens = documents_config.max_tokens

\* A document processor that is not used.
InitDocumentsIdle ==
    /\ documents_config = [max_file_size |-> 1, supported_types |-> <<Pdf, Doc>>,
                           chunk_size |-> 3, chunk_overlap |-> 1,
                           max_tokens |-> 1]
    /\ max_file_size = documents_config.max_file_size * 1024 * 1024
    /\ supported_types = documents_config.supported_types
    /\ chunk_size = documents_config.chunk_size
    /\ chunk_overlap = documents_config.chunk_overlap
    /\ doc_max_tokens = documents_config.max_tokens

\* ------------------------------------------------------- configuration files

\* ---- Python values of a configuration: None, numbers, strings, booleans
\* ---- and dictionaries

PyNone == [none |-> TRUE]
PyInt(n) == [int |-> n]
PyStr(chars) == [str |-> chars]
PyBool(b) == [bool |-> b]
PyDict(f) == [dict |-> f]

\* A float written with digits and one point: the digits as an integer and
\* the number of digits after the point, without trailing zeros.
RECURSIVE PyFloat(_, _)
PyFloat(n, scale) ==
    IF scale > 0 /\ n % 10 = 0 THEN PyFloat(n \div 10, scale - 1)
    ELSE [float |-> <<n, scale>>]

\* isinstance(v, dict)
IsDict(v) == "dict" \in DOMAIN v

\* An exception that ends the call.
Raised(exception) == [raised |-> exception]
HasRaised(r) == "raised" \in DOMAIN r

\* str.isdigit() on ASCII text
IsDigit(text) ==
    /\ text # <<>>
    /\ \A i \in 1..Len(text) : \E d \in 1..10 : DigitChars[d] = text[i]

\* value.replace('.', '')
WithoutDots(text) == SelectSeq(text, LAMBDA c : c # ".")

\* The position of the first point of a text that has one.
FirstDot(text) == CHOOSE i \in 1..Len(text) :
                     text[i] = "." /\ \A j \in 1..(i - 1) : text[j] # "."

\* float(text) for a text of digits and points: a ValueError when there is
\* more than one point.
FloatOf(text) ==
    IF Len(text) - Len(WithoutDots(text)) # 1 THEN Raised("ValueError")
    ELSE PyFloat(ParseInt(WithoutDots(text)), Len(text) - FirstDot(text))

\* int(text): an optional sign and digits, a ValueError otherwise.
IntOf(text) ==
    IF IsDigit(text) THEN PyInt(ParseInt(text))
    ELSE IF text # <<>> /\ Head(text) = "-" /\ IsDigit(Tail(text))
    THEN PyInt(0 - ParseInt(Tail(text)))
    ELSE Raised("ValueError")

\* ---- ConfigManager

\* The file at config_path is missing, or is not valid YAML.
NoYaml == [missing |-> TRUE]
InvalidYaml == [invalid |-> TRUE]

\* self.config before _load_config has returned.
NotLoaded == [not_loaded |-> TRUE]

RECURSIVE SplitFrom(_, _)
\* key.split('.') on a key given as names and points: cur is the name being
\* read.
SplitFrom(key, cur) ==
    IF key = <<>> THEN <<cur>>
    ELSE IF Head(key) = "." THEN <<cur>> \o SplitFrom(Tail(key), "")
    ELSE SplitFrom(Tail(key), Head(key))

\* key.split('.')
SplitKey(key) == SplitFrom(key, "")

\* The dotted key of a path of names.
Dotted(names) == Join(<<".">>, [i \in 1..Len(names) |-> <<names[i]>>])

\* env_overrides of _override_with_env, in the order of the dictionary.
EnvOverrides ==
    <<[key |-> Dotted(<<"documents", "max_file_size">>), var |-> "MAX_FILE_SIZE"],
      [key |-> Dotted(<<"documents", "chunk_size">>), var |-> "CHUNK_SIZE"],
      [key |-> Dotted(<<"documents", "chunk_overlap">>), var |-> "CHUNK_OVERLAP"],
      [key |-> Dotted(<<"ai_services", "openai", "api_key">>),
       var |-> "OPENAI_API_KEY"],
      [key |-> Dotted(<<"ai_services", "deepseek", "api_key">>),
       var |-> "DEEPSEEK_API_KEY"],
      [key |-> Dotted(<<"ai_services", "kimi", "api_key">>),
       var |-> "KIMI_API_KEY"],
      [key |-> Dotted(<<"vector_store", "type">>), var |-> "VECTOR_DB_TYPE"],
      [key |-> Dotted(<<"vector_store", "persist_directory">>),
       var |-> "VECTOR_STORE_PATH"]>>

\* A conversion that keeps every string as it is.
ConvertNothing(text) == PyStr(text)

\* The conversion of _set_nested_value: a string of digits and points to a
\* number, true or false in any case to a boolean, any other string kept.
ConvertValue(text) ==
    IF IsDigit(WithoutDots(text))
    THEN IF \E i \in 1..Len(text) : text[i] = "." THEN FloatOf(text)
         ELSE PyInt(ParseInt(text))
    ELSE IF Lower(text) \in {<<"t", "r", "u", "e">>, <<"f", "a", "l", "s", "e">>}
    THEN PyBool(Lower(text) = <<"t", "r", "u", "e">>)
    ELSE PyStr(text)

RECURSIVE SetIn(_, _, _)
\* The walk and the assignment of _set_nested_value: a missing name on the
\* way gets an empty dictionary; a value on the way that is no dictionary
\* raises TypeError.
SetIn(current, keys, value) ==
    IF ~IsDict(current) THEN Raised("TypeError")
    ELSE IF Len(keys) = 1 THEN PyDict((keys[1] :> value) @@ current.dict)
    ELSE LET k == Head(keys)
             child == IF k \in DOMAIN current.dict THEN current.dict[k]
                      ELSE PyDict(<<>>)
             r == SetIn(child, Tail(keys), value)
         IN IF HasRaised(r) THEN r
            ELSE PyDict((k :> r) @@ current.dict)

RECURSIVE WalkFails(_, _)
\* The walk of _set_nested_value over keys[:-1] meets a value that is no
\* dictionary.
WalkFails(current, keys) ==
    IF Len(keys) <= 1 THEN FALSE
    ELSE IF ~IsDict(current) THEN TRUE
    ELSE Head(keys) \in DOMAIN current.dict
         /\ WalkFails(current.dict[Head(keys)], Tail(keys))

\* ConfigManager._set_nested_value(key, value) for a string value.
SetNestedValue(cfg, key, value) ==
    LET keys == SplitKey(key)
    IN IF WalkFails(cfg, keys) THEN Raised("TypeError")
       ELSE LET converted == ConvertValue(value)
            IN IF HasRaised(converted) THEN converted
               ELSE SetIn(cfg, keys, converted)

RECURSIVE OverrideLoop(_, _, _)
\* The loop of _override_with_env over env_overrides from the i-th on.
OverrideLoop(cfg, environ, i) ==
    IF i > Len(EnvOverrides) THEN cfg
    ELSE LET value == environ[EnvOverrides[i].var]
         IN IF value = PyNone THEN OverrideLoop(cfg, environ, i + 1)
            ELSE LET r == SetNestedValue(cfg, EnvOverrides[i].key, value.str)
                 IN IF HasRaised(r) THEN r
                    ELSE OverrideLoop(r, environ, i + 1)

\* ConfigManager._override_with_env()
OverrideWithEnv(cfg, environ) == OverrideLoop(cfg, environ, 1)

\* ConfigManager._load_config(): the configuration, or the exception that
\* ends the construction.
LoadConfig(yaml, environ) ==
    IF yaml = NoYaml THEN Raised("FileNotFoundError")
    ELSE IF yaml = InvalidYaml THEN Raised("ValueError")
    ELSE OverrideWithEnv(yaml, environ)

RECURSIVE GetIn(_, _, _)
\* The walk of get: a KeyError or a TypeError on the way gives the default.
GetIn(current, keys, default) ==
    IF keys = <<>> THEN current
    ELSE IF IsDict(current) /\ Head(keys) \in DOMAIN current.dict
    THEN GetIn(current.dict[Head(keys)], Tail(keys), default)
    ELSE default

\* ConfigManager.get(key, default)
Get(cfg, key, default) == GetIn(cfg, SplitKey(key), default)

\* ConfigManager.__init__(config_path)
load_config ==
    /\ config = NotLoaded
    /\ ret.op # "load_config"
    /\ LET r == LoadConfig(yaml_config, env)
       IN /\ config' = IF HasRaised(r) THEN NotLoaded ELSE r
          /\ ret' = [op |-> "load_config",
                     outcome |-> IF HasRaised(r) THEN r.raised ELSE "ok"]
    /\ UNCHANGED <<convVars, aiVars, vsVars, docVars, yaml_config, generated,
                   asyncVars, call>>

\* ConfigManager.get(key, default)
get(key, default) ==
    /\ config # NotLoaded
    /\ ret' = [op |-> "get", key |-> key, default |-> default,
               value |-> Get(config, key, default)]
    /\ UNCHANGED <<convVars, aiVars, vsVars, docVars, cfgVars, asyncVars,
                   call>>

\* The environment variables _override_with_env reads.
OverrideVars == {EnvOverrides[i].var : i \in 1..Len(EnvOverrides)}

\* The values of the environment variables explored: an integer, a float,
\* a text float() refuses, a boolean and plain strings.
EnvTexts(var) ==
    IF var \in {"MAX_FILE_SIZE", "CHUNK_SIZE", "CHUNK_OVERLAP"}
    THEN {<<"8">>, <<"0", ".", "5">>, <<"1", ".", "2", ".", "3">>}
    ELSE IF var \in {"VECTOR_DB_TYPE", "VECTOR_STORE_PATH"}
    THEN {<<"f", "a", "i", "s", "s">>, <<"T", "R", "U", "E">>, <<".">>}
    ELSE {<<"s", "k", "-", "1">>, <<"1", "2">>, <<>>}

\* The environments explored: at most MaxEnvSet of the variables are set.
OverrideEnvironments ==
    UNION {{[v \in OverrideVars |-> IF v \in set THEN PyStr(texts[v]) ELSE PyNone] :
               texts \in {t \in [set -> UNION {EnvTexts(v) : v \in set}] :
                             \A v \in set : t[v] \in EnvTexts(v)}} :
           set \in {S \in SUBSET OverrideVars : Cardinality(S) <= MaxEnvSet}}

\* The contents of config.yaml explored: a full file, one with some of the
\* sections and keys, one whose documents section is no mapping, an empty
\* file (None), no file and an invalid one.
FullYaml ==
    PyDict([documents |-> PyDict([max_file_size |-> PyInt(10),
                                  chunk_size |-> PyInt(1000),
                                  chunk_overlap |-> PyInt(200)]),
            ai_services |-> PyDict([openai |-> PyDict([enabled |-> PyBool(TRUE),
                                                      api_key |-> PyNone]),
                                    deepseek |-> PyDict([enabled |-> PyBool(FALSE),
                                                        api_key |-> PyStr(<<"k">>)]),
                                    kimi |-> PyDict([enabled |-> PyBool(FALSE),
                                                    api_key |-> PyNone])]),
            vector_store |-> PyDict([type |-> PyStr(<<"c", "h", "r", "o", "m", "a">>),
                                     persist_directory |-> PyStr(<<".", "/", "v">>)])])
PartialYaml ==
    PyDict([documents |-> PyDict([chunk_size |-> PyInt(1000)]),
            ai_services |-> PyDict([openai |-> PyDict([enabled |-> PyBool(TRUE)])])])
ScalarSectionYaml ==
    PyDict([documents |-> PyInt(5),
            vector_store |-> PyDict([type |-> PyStr(<<"c", "h", "r", "o", "m", "a">>)])])
YamlContents ==
    {FullYaml, PartialYaml, ScalarSectionYaml, PyNone, NoYaml, InvalidYaml}

\* The dotted keys looked up: the eight overridden keys, a section, and
\* paths that do not exist in any of the files.
GetKeys ==
    {EnvOverrides[i].key : i \in 1..Len(EnvOverrides)}
    \cup {Dotted(<<"documents">>), Dotted(<<"documents", "max_tokens">>),
          Dotted(<<"documents", "chunk_size", "unit">>),
          Dotted(<<"ui", "theme">>), <<"documents", ".", ".", "chunk_size">>}

\* The defaults passed to get: None when none is given.
Defaults == {PyNone, PyInt(7)}

\* ---- ConfigGenerator

\* self.config after __init__, before get_user_input.
EmptyConfig == [empty |-> TRUE]

\* "text or default" of get_user_input for a typed string.
TextOr(text, default) == IF text = <<>> THEN default ELSE text

\* "int(text or default)" of get_user_input.
IntOr(text, default) == IF text = <<>> THEN PyInt(default) ELSE IntOf(text)

\* ConfigGenerator.get_user_input() as a function of what the user types:
\* the parts of self.config that validate_config reads, or the ValueError
\* of int() on a text that is no number.
GetUserInput(typed) ==
    LET size == IntOr(typed.chunk_size, 1000)
        overlap == IntOr(typed.chunk_overlap, 200)
    IN IF HasRaised(size) THEN size
       ELSE IF HasRaised(overlap) THEN overlap
       ELSE [ai_services |-> [p \in Providers |-> [enabled |-> p \in typed.enabled]],
             vector_store |-> [type |-> TextOr(typed.type, <<"f", "a", "i", "s", "s">>)],
             documents |-> [chunk_size |-> size.int, chunk_overlap |-> overlap.int],
             ui |-> [theme |-> TextOr(typed.theme, <<"l", "i", "g", "h", "t">>)]]

\* validate_config with the overlap check accepting an overlap equal to the
\* chunk size.
ValidateConfigOverlapEqual(cfg) ==
    IF cfg = EmptyConfig THEN FALSE
    ELSE IF {p \in Providers : cfg.ai_services[p].enabled} = {} THEN FALSE
    ELSE IF cfg.vector_store.type
              \notin {<<"f", "a", "i", "s", "s">>, <<"c", "h", "r", "o", "m", "a">>}
    THEN FALSE
    ELSE IF cfg.documents.chunk_size <= 0 THEN FALSE
    ELSE IF cfg.documents.chunk_overlap > cfg.documents.chunk_size THEN FALSE
    ELSE IF cfg.ui.theme \notin {<<"l", "i", "g", "h", "t">>, <<"d", "a", "r", "k">>}
    THEN FALSE
    ELSE TRUE

\* ConfigGenerator.validate_config(): a configuration without its sections
\* raises KeyError, which the except clause turns into False.
ValidateConfig(cfg) ==
    IF cfg = EmptyConfig THEN FALSE
    ELSE IF {p \in Providers : cfg.ai_services[p].enabled} = {} THEN FALSE
    ELSE IF cfg.vector_store.type
              \notin {<<"f", "a", "i", "s", "s">>, <<"c", "h", "r", "o", "m", "a">>}
    THEN FALSE
    ELSE IF cfg.documents.chunk_size <= 0 THEN FALSE
    ELSE IF cfg.documents.chunk_overlap >= cfg.documents.chunk_size THEN FALSE
    ELSE IF cfg.ui.theme \notin {<<"l", "i", "g", "h", "t">>, <<"d", "a", "r", "k">>}
    THEN FALSE
    ELSE TRUE

\* The files generate_files writes, in the order it writes them.
GeneratedFiles ==
    <<"config.yaml", ".env.production", ".env.local", "vercel.json",
      "docker-compose.yml">>

\* ConfigGenerator.generate_files(): the files written when the failing-th
\* open() raises (0: none does).
GenerateFiles(failing) ==
    {GeneratedFiles[i] : i \in 1..(IF failing = 0 THEN Len(GeneratedFiles)
                                  ELSE failing - 1)}

\* ConfigGenerator.validate_config()
validate_config(cfg) ==
    /\ ret' = [op |-> "validate_config", config |-> cfg,
               value |-> ValidateConfig(cfg)]
    /\ UNCHANGED <<convVars, aiVars, vsVars, docVars, cfgVars, asyncVars,
                   call>>

\* ConfigGenerator.run(): what the user types, whether the user confirms the
\* preview, and which write of generate_files fails.
run(typed, confirmed, failing) ==
    LET cfg == GetUserInput(typed)
    IN /\ IF HasRaised(cfg)
          THEN /\ ret' = [op |-> "run", config |-> EmptyConfig, valid |-> FALSE,
                          confirmed |-> FALSE, outcome |-> "exit 1"]
               /\ generated' = generated
          ELSE IF ~ValidateConfig(cfg)
          THEN /\ ret' = [op |-> "run", config |-> cfg, valid |-> FALSE,
                          confirmed |-> FALSE, outcome |-> "returned"]
               /\ generated' = generated
          ELSE IF ~confirmed
          THEN /\ ret' = [op |-> "run", config |-> cfg, valid |-> TRUE,
                          confirmed |-> FALSE, outcome |-> "returned"]
               /\ generated' = generated
          ELSE /\ ret' = [op |-> "run", config |-> cfg, valid |-> TRUE,
                          confirmed |-> TRUE,
                          outcome |-> IF failing = 0 THEN "returned"
                                      ELSE "exit 1"]
               /\ generated' = generated \cup GenerateFiles(failing)
       /\ UNCHANGED <<convVars, aiVars, vsVars, docVars, yaml_config, config,
                      asyncVars, call>>

\* What the user types at the prompts of get_user_input that validate_config
\* depends on: the enabled services, the vector store type, the chunk size,
\* the chunk overlap and the theme (an empty text takes the default).
TypedInputs ==
    [enabled : SUBSET Providers,
     type : {<<>>, <<"c", "h", "r", "o", "m", "a">>, <<"x">>},
     chunk_size : {<<>>, <<"0">>, <<"2">>, <<"-", "1">>, <<"x">>},
     chunk_overlap : {<<>>, <<"1">>, <<"2">>, <<"1", "0", "0", "0">>},
     theme : {<<>>, <<"d", "a", "r", "k">>, <<"x">>}]

\* The calls of the configuration generator explored.
GeneratorCalls ==
    [op : {"run"}, typed : TypedInputs, confirmed : BOOLEAN,
     failing : 0..Len(GeneratedFiles)]
    \cup {[op |-> "validate_config", config |-> EmptyConfig]}
    \cup {[op |-> "validate_config", config |-> GetUserInput(typed)] :
             typed \in {t \in TypedInputs : ~HasRaised(GetUserInput(t))}}

\* A configuration file and an environment, before ConfigManager is
\* constructed.
InitConfig ==
    /\ yaml_config \in YamlContents
    /\ env \in OverrideEnvironments
    /\ config = NotLoaded
    /\ generated = {}
    /\ pending = <<>>

\* A configuration that is neither loaded nor generated, and no completion
\* call in flight.
InitConfigIdle ==
    /\ yaml_config = NoYaml
    /\ config = NotLoaded
    /\ generated = {}
    /\ pending = <<>>

\* No call drawn for the document processor or the configuration generator.
NoCall == [op |-> "none"]
InitNoCall == call = NoCall

\* --------------------------------------------------------- specifications

\* ConversationManager.__init__(config)
InitConv ==
    /\ max_history \in MaxHistories
    /\ context_window \in ContextWindows
    /\ include_document_context \in BOOLEAN
    /\ history = <<>>
    /\ \E now \in Times : metadata = FreshMetadata(now)
    /\ nAppended = 0
    /\ passedSources = {}
    /\ onlyAppends = TRUE
    /\ ret = NoReturn

NextConv ==
    \/ \E type \in MsgTypes, content \in Contents, docs \in SourceDocArgs :
          add_message(type, content, docs)
    \/ \E now \in Times : clear_history(now)
    \/ \E enc \in Encoders : trim_to_token_limit(enc)

\* A conversation manager alone.
InitConvOnly ==
    InitConv /\ InitNoServices /\ InitVectorStoreIdle /\ InitDocumentsIdle
    /\ InitConfigIdle /\ InitNoCall

SpecConv == InitConvOnly /\ [][NextConv]_vars

\* The conversation manager with its exports.
NextExport ==
    \/ /\ nAppended < MaxExportAppends
       /\ \E type \in MsgTypes, content \in Contents, docs \in SourceDocArgs :
             add_message(type, content, docs)
    \/ \E now \in Times : clear_history(now)
    \/ \E enc \in Encoders : trim_to_token_limit(enc)
    \/ export_to_markdown
    \/ \E now \in Times : export_to_json(now)
    \/ export_to_txt

SpecExport == InitConvOnly /\ [][NextExport]_vars

\* The conversation manager with its message count: appends without source
\* documents, trims, clears and JSON exports.
NextTotals ==
    \/ add_message("human", ShortText, <<>>)
    \/ add_message("ai", LongText, <<>>)
    \/ \E now \in Times : clear_history(now)
    \/ \E enc \in Encoders : trim_to_token_limit(enc)
    \/ \E now \in Times : export_to_json(now)

SpecTotals == InitConvOnly /\ [][NextTotals]_vars

\* A conversation manager that is not used: the fixed state the conversation
\* variables keep in the specifications of the AI service manager.
InitConvIdle ==
    /\ max_history = 2
    /\ context_window = 3
    /\ include_document_context = TRUE
    /\ history = <<>>
    /\ metadata = FreshMetadata(<<"T", "1">>)
    /\ nAppended = 0
    /\ passedSources = {}
    /\ onlyAppends = TRUE
    /\ ret = NoReturn

\* Names a caller may pass as service_name: the three providers (enabled or
\* not).
ServiceArgs == Providers

\* The AI service manager: completions, configuration reads and updates,
\* chains and fallback look-ups, with none, one or two of the providers
\* enabled.
NextAI ==
    \/ \E p \in ServiceArgs, t \in TemperatureArgs, m \in MaxTokensArgs,
          answer \in RequestOutcomes : get_completion(p, t, m, answer)
    \/ \E p \in ServiceArgs, u \in ConfigUpdates : update_service_config(p, u)
    \/ \E p \in ServiceArgs : get_service_config(p)
    \/ \E p \in ServiceArgs, mt \in MemoryTypes : create_conversation_chain(p, mt)
    \/ \E p \in ServiceArgs : get_fallback_service(p)

InitAI ==
    /\ InitConvIdle /\ InitServices(FileOrders)
    /\ InitVectorStoreIdle /\ InitDocumentsIdle
    /\ InitConfigIdle /\ InitNoCall

SpecAI == InitAI /\ [][NextAI]_vars

\* The AI service manager's look-up of a fallback provider, for every order
\* of the enabled providers.
NextFallback ==
    \/ \E p \in ServiceArgs : get_fallback_service(p)
    \/ get_available_services
    \/ \E p \in ServiceArgs, u \in ConfigUpdates : update_service_config(p, u)

InitFallback ==
    /\ InitConvIdle /\ InitServices(AllOrders)
    /\ InitVectorStoreIdle /\ InitDocumentsIdle
    /\ InitConfigIdle /\ InitNoCall

SpecFallback == InitFallback /\ [][NextFallback]_vars

\* The vector store manager on its persist directory, for both backends.
NextVectorStore ==
    \/ load_vector_store
    \/ \E documents \in DocumentArgs : create_vector_store(documents)
    \/ \E documents \in DocumentArgs : update_vector_store(documents)
    \/ clear_vector_store
    \/ get_vector_store_stats
    \/ \E query \in Queries, docs \in StoreContents, k \in Ks,
          filter_dict \in Filters : similarity_search(query, docs, k, filter_dict)

InitVS ==
    /\ InitConvIdle /\ InitNoServices
    /\ InitVectorStore /\ InitDocumentsIdle
    /\ InitConfigIdle /\ InitNoCall

SpecVectorStore == InitVS /\ [][NextVectorStore]_vars

\* The document processor on uploaded files.
\* The pages read from the files whose validation is explored.
FewPageLists == {<<>>, << <<"a", "b", " ", "a">> >>}

\* The uploads a batch is made of: a file, how its extraction ends and the
\* pages or paragraphs read from it.
Uploads ==
    {[file |-> [name |-> <<"a", ".">> \o Pdf, length |-> BytesPerMB,
                has_size |-> TRUE],
      extraction |-> "ok", pages |-> << <<"a", " ", "b">> >>],
     [file |-> [name |-> <<"a", ".", "P", "D", "F">>, length |-> BytesPerMB,
                has_size |-> TRUE],
      extraction |-> "fails", pages |-> <<>>],
     [file |-> [name |-> <<"a", ".">> \o Txt, length |-> BytesPerMB,
                has_size |-> TRUE],
      extraction |-> "ok", pages |-> <<>>],
     [file |-> [name |-> <<"a", ".">> \o Pdf, length |-> 2 * BytesPerMB + 1,
                has_size |-> TRUE],
      extraction |-> "ok", pages |-> << <<"a">> >>],
     [file |-> [name |-> <<"a", ".", "b", ".">> \o Doc, length |-> BytesPerMB,
                has_size |-> TRUE],
      extraction |-> "ok", pages |-> << <<"a", "b">> >>]}

\* The batches of at most MaxBatch uploads.
Batches == UNION {[1..n -> Uploads] : n \in 0..MaxBatch}

\* The calls of the document processor whose handling of files is
\* explored.
DocumentCalls ==
    [op : {"validate_file"}, file : Files \cup {NoFile}]
    \cup [op : {"process_document"}, file : Files \cup {NoFile},
          extraction : ExtractionOutcomes, pages : FewPageLists, now : Times]
    \cup {[op |-> "process_documents",
           files |-> [i \in 1..Len(batch) |-> batch[i].file],
           extractions |-> [i \in 1..Len(batch) |-> batch[i].extraction],
           pagess |-> [i \in 1..Len(batch) |-> batch[i].pages],
           now |-> now] : batch \in Batches, now \in Times}

NextDocuments ==
    \/ call.op = "validate_file" /\ validate_file(call.file)
    \/ /\ call.op = "process_document"
       /\ process_document(call.file, call.extraction, call.pages, call.now)
    \/ /\ call.op = "process_documents"
       /\ process_documents(call.files, call.extractions, call.pagess,
                            call.now)

InitDocs ==
    /\ InitConvIdle /\ InitNoServices
    /\ InitVectorStoreIdle /\ InitDocuments
    /\ InitConfigIdle
    /\ call \in DocumentCalls

SpecDocuments == InitDocs /\ [][NextDocuments]_vars


\* The files whose text is chunked: a PDF and a Word document that pass
\* validate_file.
ChunkedFiles ==
    {[name |-> <<"a", ".">> \o Pdf, length |-> BytesPerMB, has_size |-> TRUE],
     [name |-> <<"a", ".", "b", ".">> \o Doc, length |-> BytesPerMB,
      has_size |-> TRUE]}

\* The texts of the documents given to validate_token_limits: short and
\* long ones, with and without separators.
TokenTexts ==
    {<<"a", "b">>,
     <<"a", "a", "a", "a", " ", "b", "b">>,
     <<"a", "a", "a", "a", "a", "a", "a", "a">>,
     <<"a", " ", "b", "\n", "a", "b", "a", "b", "a">>}

\* The document lists given to validate_token_limits: at most MaxBatch
\* chunks of a file, with their metadata.
TokenDocuments ==
    {[i \in 1..Len(texts) |->
         [page_content |-> texts[i],
          metadata |-> [source |-> "a.pdf", chunk |-> i - 1]]] :
     texts \in UNION {[1..n -> TokenTexts] : n \in 0..MaxBatch}}

\* The calls of the document processor whose chunking is explored.
ChunkCalls ==
    [op : {"process_document"}, file : ChunkedFiles, extraction : {"ok"},
     pages : PageLists, now : Times]
    \cup [op : {"validate_token_limits"}, documents : TokenDocuments,
          tiktoken : BOOLEAN]

NextChunks ==
    \/ /\ call.op = "process_document"
       /\ process_document(call.file, call.extraction, call.pages, call.now)
    \/ /\ call.op = "validate_token_limits"
       /\ validate_token_limits(call.documents, call.tiktoken)

InitChunks ==
    /\ InitConvIdle /\ InitNoServices
    /\ InitVectorStoreIdle /\ InitChunking
    /\ InitConfigIdle
    /\ call \in ChunkCalls

SpecChunks == InitChunks /\ [][NextChunks]_vars

NextConfig ==
    \/ load_config
    \/ \E key \in GetKeys, default \in Defaults : get(key, default)

InitCfg ==
    /\ InitConvIdle /\ InitVectorStoreIdle /\ InitDocumentsIdle
    /\ serviceNames = <<>> /\ services = <<>>
    /\ InitConfig /\ InitNoCall

SpecConfig == InitCfg /\ [][NextConfig]_vars

NextGenerator ==
    \/ call.op = "validate_config" /\ validate_config(call.config)
    \/ call.op = "run" /\ run(call.typed, call.confirmed, call.failing)

InitGenerator ==
    /\ InitConvIdle /\ InitNoServices
    /\ InitVectorStoreIdle /\ InitDocumentsIdle
    /\ InitConfigIdle
    /\ call \in GeneratorCalls

SpecGenerator == InitGenerator /\ [][NextGenerator]_vars

\* The AI service manager with completion calls that overlap.
NextAsync ==
    \/ \E p \in ServiceArgs, t \in TemperatureArgs, m \in MaxTokensArgs :
          get_completion_begin(p, t, m)
    \/ \E i \in 1..MaxPending : model_ainvoke(i)
    \/ \E i \in 1..MaxPending, answer \in RequestOutcomes :
          get_completion_end(i, answer)

SpecAsync == InitAI /\ [][NextAsync]_vars

\* ------------------------------------------------------------------- claims

\* C1: after every add_message, for every configured max_history, the
\* history holds at most 2 * max_history messages. (No other operation
\* lengthens the history, so this is an invariant of the manager.)
C1_HistoryWithinCap == Len(history) <= 2 * max_history

\* The appended messages still in h alternate human, ai from the first
\* append on.
AlternatesInPairs(h) ==
    \A i \in 1..Len(h) :
        h[i].type = (IF h[i].seq % 2 = 1 THEN "human" ELSE "ai")

\* C2: from an empty history, after N user/assistant pairs were appended
\* with add_message (and nothing else was done), N > max_history, the
\* history is exactly the max_history most recent pairs, in order.
C2_KeepsMostRecentPairs ==
    (/\ onlyAppends
     /\ nAppended % 2 = 0
     /\ nAppended \div 2 > max_history
     /\ AlternatesInPairs(history))
    => /\ Len(history) = 2 * max_history
       /\ \A i \in 1..Len(history) :
             history[i].seq = nAppended - 2 * max_history + i

\* C3: trim_to_token_limit always returns; it removes messages only from the
\* front and two at a time; on return the token count is within
\* context_window or fewer than two messages remain; and it changes nothing
\* when the count was already within context_window.
C3_TrimToTokenLimit ==
    /\ [](\A enc \in Encoders : ENABLED trim_to_token_limit(enc))
    /\ [][\A enc \in Encoders :
            trim_to_token_limit(enc) =>
                LET removed == Len(history) - Len(history')
                IN /\ removed >= 0
                   /\ removed % 2 = 0
                   /\ history' = DropFront(history, removed)
                   /\ \/ get_token_count(history', enc) <= context_window
                      \/ Len(history') < 2
                   /\ get_token_count(history, enc) <= context_window
                        => history' = history /\ metadata' = metadata]_vars

\* Witness of C3: a trim removed messages and stopped with one message left
\* whose token count is still above context_window.
C3_Witness ==
    /\ ~onlyAppends
    /\ Len(history) = 1
    /\ get_token_count(history, FallbackEncoder) > context_window

\* C4: parsing the text export_to_json returned yields a message list with
\* the types and contents of the history, in order, and a document_sources
\* list whose set of elements is the metadata's document-source set.
C4_JsonRoundTrip ==
    ret.op = "export_to_json" =>
        LET doc == JsonLoads(ret.text)
            msgs == ObjGet(doc, <<"messages">>).items
            srcs == ObjGet(ObjGet(doc, <<"metadata">>), <<"document_sources">>).items
        IN /\ Len(msgs) = Len(history)
           /\ \A i \in 1..Len(msgs) :
                 /\ ObjGet(msgs[i], <<"type">>).s = <<history[i].type>>
                 /\ ObjGet(msgs[i], <<"content">>).s = history[i].content
           /\ {srcs[i].s : i \in 1..Len(srcs)} = Range(metadata.document_sources)

\* Witness of C4: a JSON export of a history of two messages, one with
\* characters that need escaping, and of two document sources.
C4_Witness ==
    /\ ret.op = "export_to_json"
    /\ Len(history) = 2
    /\ \E i \in 1..2 : history[i].content = LongText
    /\ Len(metadata.document_sources) = 2

ExportOps == {"export_to_markdown", "export_to_json", "export_to_txt"}

\* C5: the three exports leave the history and the metadata unchanged, and
\* two exports in the same format taken from the same state return the same
\* text.
C5_ExportsArePure ==
    [][ret'.op \in ExportOps =>
          /\ convVars' = convVars
          /\ ret.op = ret'.op => ret'.text = ret.text]_vars

\* C6 as claimed: the document-source set is the set of 'source' values
\* passed to add_message since the last clear_history (so evictions lose
\* nothing), and a clear empties it with the history and the count.
C6_SourcesAreAllPassed ==
    /\ Range(metadata.document_sources) = passedSources
    /\ nAppended = 0 =>
          /\ history = <<>>
          /\ metadata.total_messages = 0
          /\ metadata.document_sources = <<>>

\* C6 amended: the same when include_document_context is set; when it is
\* not set, no source is recorded and the set stays empty.
C6_SourcesTrackedWhenEnabled ==
    /\ include_document_context =>
          Range(metadata.document_sources) = passedSources
    /\ ~include_document_context => metadata.document_sources = <<>>
    /\ nAppended = 0 =>
          /\ history = <<>>
          /\ metadata.total_messages = 0
          /\ metadata.document_sources = <<>>

\* Witness of C6: both sources were passed and recorded, and messages have
\* been evicted from the history since.
C6_Witness ==
    /\ include_document_context
    /\ passedSources = Sources
    /\ Range(metadata.document_sources) = Sources
    /\ Len(history) < nAppended

\* Whether the client c was built from configuration cfg of provider p: its
\* temperature, max_tokens and key are the configured ones (or the defaults).
BuiltFrom(p, c, cfg) ==
    /\ c.temperature = DictGet(cfg, "temperature", DefaultTemperature)
    /\ c.max_tokens = DictGet(cfg, "max_tokens", DefaultMaxTokens)
    /\ c.api_key = PyOr(DictGet(cfg, "api_key", None), env[EnvVar(p)])

\* C7: update_service_config on an enabled provider stores the updates and
\* leaves that provider without a cached client and the other providers'
\* entries as they were; a later use that finds no cached client
\* (create_conversation_chain, or get_completion without overrides)
\* constructs one from the configuration as it then is, and the request
\* goes out with those values. (ret' names the call a step made.)
C7_UpdateInvalidatesClient ==
    [][LET p == ret'.provider
       IN /\ (ret'.op = "update_service_config" /\ ret'.outcome = "ok") =>
                /\ services'[p].model = NoModel
                /\ \A k \in DOMAIN ret'.args : services'[p].config[k] = ret'.args[k]
                /\ \A q \in DOMAIN services \ {p} : services'[q] = services[q]
          /\ (/\ ret'.op = "create_conversation_chain"
              /\ ret'.outcome = "ok"
              /\ services[p].model = NoModel)
             => BuiltFrom(p, services'[p].model, services[p].config)
          /\ (/\ ret'.op = "get_completion"
              /\ ret'.requests # <<>>
              /\ ret'.args = <<NotGiven, NotGiven>>
              /\ services[p].model = NoModel)
             => /\ BuiltFrom(p, services'[p].model, services[p].config)
                /\ ret'.requests[1].temperature =
                      DictGet(services[p].config, "temperature", DefaultTemperature)
                /\ ret'.requests[1].max_tokens =
                      DictGet(services[p].config, "max_tokens", DefaultMaxTokens)]_vars

\* Witness of C7: after an update stored a temperature for a provider, a
\* completion without overrides went out with that temperature.
C7_Witness ==
    /\ ret.op = "get_completion"
    /\ ret.args = <<NotGiven, NotGiven>>
    /\ ret.outcome = "ok"
    /\ "temperature" \in DOMAIN services[ret.provider].config
    /\ ret.requests[1].temperature = services[ret.provider].config.temperature

\* C8: an override passed to get_completion is written into the provider's
\* client and used for the request; a later get_completion without that
\* override sends the value the client holds; the client of a provider
\* changes only by a get_completion or an update_service_config on that
\* provider; and get_completion changes no stored configuration.
C8_OverrideSticks ==
    [][/\ (ret'.op = "get_completion" /\ ret'.requests # <<>>) =>
             LET p == ret'.provider
                 t == ret'.args[1]
                 m == ret'.args[2]
                 old == services[p].model
                 new == services'[p].model
                 req == ret'.requests[1]
             IN /\ req.temperature = new.temperature
                /\ req.max_tokens = new.max_tokens
                /\ t # NotGiven => new.temperature = t
                /\ m # NotGiven => new.max_tokens = m
                /\ (t = NotGiven /\ old # NoModel)
                      => new.temperature = old.temperature
                /\ (m = NotGiven /\ old # NoModel)
                      => new.max_tokens = old.max_tokens
                /\ \A q \in DOMAIN services :
                      /\ services'[q].config = services[q].config
                      /\ q # p => services'[q] = services[q]
       /\ ret'.op = "get_completion" =>
             \A q \in DOMAIN services : services'[q].config = services[q].config
       /\ \A q \in DOMAIN services :
             (services[q].model # NoModel /\ services'[q].model # services[q].model)
             => /\ ret'.provider = q
                /\ ret'.op \in {"get_completion", "update_service_config"}
                /\ ret'.op = "update_service_config"
                      => services'[q].model = NoModel]_vars

\* Witness of C8: a completion that passed no override was sent with the
\* temperature and the max_tokens that earlier calls had passed.
C8_Witness ==
    /\ ret.op = "get_completion"
    /\ ret.args = <<NotGiven, NotGiven>>
    /\ ret.requests # <<>>
    /\ ret.requests[1].temperature = 9
    /\ ret.requests[1].max_tokens = 50

\* What the claim expects of get_fallback_service: whether provider q has a
\* client or one can be constructed for it.
Constructible(q) ==
    \/ services[q].model # NoModel
    \/ CanConstruct(ModelKwargs(q, services[q].config, env), env)

\* The enabled providers after current in cyclic order (all of them, in
\* order, when current is not an enabled provider), current left out.
AfterCurrent(current) ==
    LET n == Len(serviceNames)
        ci == IndexOrMinusOne(serviceNames, current)
        rotated == [i \in 1..n |-> serviceNames[((ci + i) % n) + 1]]
    IN SelectSeq(rotated, LAMBDA q : q # current)

\* C9: get_fallback_service(current) returns the first provider after
\* current, in the cyclic order of the enabled providers, that can be
\* constructed, and None only when there is none.
C9_FallbackIsNextConstructible ==
    ret.op = "get_fallback_service" =>
        LET cands == SelectSeq(AfterCurrent(ret.provider), Constructible)
        IN ret.value = (IF cands = <<>> THEN None ELSE cands[1])

\* The operations that take a service name and refuse one that is not
\* enabled.
RefusingOps ==
    {"get_completion", "create_conversation_chain", "get_service_config",
     "update_service_config"}

\* C10: get_completion, create_conversation_chain, get_service_config and
\* update_service_config on a provider that is not enabled raise an error
\* whose message names the provider as not enabled, send no request, and
\* leave the service table and every client unchanged. (ret' names the
\* call a step made.)
C10_NotEnabledIsRefused ==
    [][(/\ ret'.op \in RefusingOps
        /\ ret'.provider \notin DOMAIN services)
       => /\ ret'.outcome = "ValueError"
          /\ ret'.provider \in Range(ret'.message)
          /\ " is not enabled" \in Range(ret'.message)
          /\ ret'.requests = <<>>
          /\ services' = services
          /\ serviceNames' = serviceNames]_vars

\* Witness of C10: with all three providers disabled a get_completion was
\* refused.
C10_Witness ==
    /\ serviceNames = <<>>
    /\ ret.op = "get_completion"
    /\ ret.outcome = "ValueError"

\* C11: a get_completion call sends exactly one request, to the client of
\* the named provider (cached, or constructed by the call), and ends as that
\* request ends: a failure reaches the caller with no value, and no request
\* goes to any other provider. A call for which there is no such client
\* (provider not enabled, client not constructible) sends nothing. No other
\* operation of the manager, get_fallback_service included, sends a request,
\* so a second request takes a second get_completion by the caller.
C11_OneRequestPerCall ==
    /\ ret.op = "get_completion" =>
          /\ Len(ret.requests) <= 1
          /\ \A i \in 1..Len(ret.requests) : ret.requests[i].provider = ret.provider
          /\ Len(ret.requests) = 1 <=> ret.outcome \in RequestOutcomes
          /\ Len(ret.requests) = 0 <=> ret.outcome \in {"ValueError", "ConstructError"}
          /\ ret.outcome # "ok" => ret.value = None
          /\ (ret.provider \in DOMAIN services
                /\ services[ret.provider].model # NoModel)
             <=> Len(ret.requests) = 1
    /\ (ret.op # "none" /\ ret.op # "get_completion") => ret.requests = <<>>

\* Witness of C11: with two providers enabled and constructible, a
\* get_completion on the first failed after its one request.
C11_Witness ==
    /\ Len(serviceNames) = 2
    /\ \A q \in DOMAIN services : Constructible(q)
    /\ ret.op = "get_completion"
    /\ ret.provider = serviceNames[1]
    /\ ret.outcome = "ProviderError"
    /\ Len(ret.requests) = 1

\* Whether the disk holds an index of backend t: index files written by
\* FAISS.save_local, or a Chroma database.
HoldsIndex(t, d) ==
    IF t = "faiss" THEN FaissFiles \cap d.files # {} ELSE ChromaDb \in d.files

\* C12: load_vector_store on a persist directory that holds no index of the
\* configured backend returns None and does not raise, for faiss and for
\* chroma.
C12_LoadMissingReturnsNone ==
    [][(/\ ret'.op = "load_vector_store"
        /\ ~HoldsIndex(vector_store_type, disk))
       => /\ ret'.outcome = "ok"
          /\ ret'.value = NoStore]_vars

\* C13: load_vector_store on an index that is on disk but cannot be read
\* raises an error, so that its caller can tell it from a missing index.
C13_LoadCorruptRaises ==
    [][(/\ ret'.op = "load_vector_store"
        /\ HoldsIndex(vector_store_type, disk)
        /\ ~disk.readable)
       => ret'.outcome # "ok"]_vars

\* C14: every load_vector_store call returns, and what it returns is either
\* None or a store holding all the documents of a readable index on disk; a
\* load that fails returns None.
C14_LoadIsAllOrNothing ==
    ret.op = "load_vector_store" =>
        /\ ret.outcome = "ok"
        /\ \/ ret.value = NoStore
           \/ /\ HoldsIndex(vector_store_type, disk)
              /\ disk.readable
              /\ ret.value = Store(vector_store_type, disk.docs)
        /\ ~disk.readable => ret.value = NoStore

\* Witness of C14: a load of an index that is on disk and cannot be read
\* returned None.
C14_Witness ==
    /\ ret.op = "load_vector_store"
    /\ HoldsIndex(vector_store_type, disk)
    /\ disk.docs # <<>>
    /\ ~disk.readable
    /\ ret.value = NoStore

\* C15: after create_vector_store(D) returned, the persisted index holds
\* exactly the documents D, whatever was persisted before, and a following
\* load_vector_store returns a store with exactly D, for faiss and for
\* chroma.
C15_CreateOverwrites ==
    (ret.op = "create_vector_store" /\ ret.outcome = "ok") =>
        /\ disk.docs = ret.args
        /\ LoadVectorStore(vector_store_type, disk).value
              = Store(vector_store_type, ret.args)

\* C16: update_vector_store(D) removes no persisted document: the documents
\* E of the index on disk are still there afterwards; when it returns, the
\* index holds E followed by D if an index was on disk, and D alone only if
\* none was.
C16_UpdateKeepsDocuments ==
    [][ret'.op = "update_vector_store" =>
          /\ Len(disk'.docs) >= Len(disk.docs)
          /\ SubSeq(disk'.docs, 1, Len(disk.docs)) = disk.docs
          /\ ret'.outcome = "ok" =>
                disk'.docs = (IF HoldsIndex(vector_store_type, disk)
                              THEN disk.docs \o ret'.args ELSE ret'.args)]_vars

\* C17: similarity_search returns at most k documents, and when
\* similarity_threshold is greater than 0 every returned document has a
\* similarity (1 - distance) of at least the threshold, so that a store
\* whose documents are all below it yields the empty list, for faiss and
\* for chroma.
C17_SearchWithinKAndThreshold ==
    ret.op = "similarity_search" =>
        /\ Len(ret.value) <= ret.args.k
        /\ similarity_threshold > 0 =>
              \A i \in 1..Len(ret.value) :
                  10 - ret.args.query[ret.value[i].page_content]
                      >= similarity_threshold

\* The paths create_vector_store and update_vector_store write for backend
\* t.
Artifacts(t) == IF t = "faiss" THEN FaissFiles ELSE {ChromaDb}

\* C18: clear_vector_store completes and leaves none of the artifacts that
\* create_vector_store or update_vector_store wrote, so that the next
\* load_vector_store returns None and get_vector_store_stats reports
\* not_found with document_count 0.
C18_ClearRemovesArtifacts ==
    ret.op = "clear_vector_store" =>
        /\ ret.outcome = "ok"
        /\ Artifacts(vector_store_type) \cap disk.files = {}
        /\ LoadVectorStore(vector_store_type, disk).value = NoStore
        /\ VectorStoreStats(vector_store_type, disk).value
              = [status |-> "not_found", document_count |-> 0]

\* C19: get_vector_store_stats never raises; it reports not_found with
\* document_count 0 when no index is on disk, loaded with the number of
\* documents when the index on disk is readable, and error when an index is
\* on disk and cannot be read.
C19_StatsReportsStatus ==
    [][ret'.op = "get_vector_store_stats" =>
          /\ ret'.outcome = "ok"
          /\ IF ~HoldsIndex(vector_store_type, disk)
             THEN /\ ret'.value.status = "not_found"
                  /\ ret'.value.document_count = 0
             ELSE IF disk.readable
             THEN /\ ret'.value.status = "loaded"
                  /\ ret'.value.document_count = Len(disk.docs)
             ELSE ret'.value.status = "error"]_vars

\* C20: validate_file accepts a file exactly when its size is at most
\* max_file_size and its lower-cased extension is one of supported_types;
\* a rejection names the violated constraint (the limit, or the extension);
\* and process_document returns no chunks for a file validate_file rejects.
C20_ValidateFile ==
    LET file == ret.file
        fits == file.length <= documents_config.max_file_size * BytesPerMB
        supported == FileExt(file.name) \in Range(supported_types)
    IN /\ (ret.op = "validate_file" /\ file # NoFile) =>
              /\ ret.outcome = "ok" <=> (fits /\ supported)
              /\ (ret.outcome # "ok" /\ ~fits) =>
                    ret.message = <<"File size exceeds limit (">>
                                  \o Digits(documents_config.max_file_size)
                                  \o <<"MB)">>
              /\ (ret.outcome # "ok" /\ fits) =>
                    ret.message = <<"Unsupported file type: ">> \o FileExt(file.name)
       /\ (ret.op = "process_document" /\ file # NoFile /\ ~(fits /\ supported)) =>
              /\ ret.outcome # "ok"
              /\ ret.value = None

\* What process_document gives for the i-th file of the batch the last
\* process_documents call was given.
FileResult(i) ==
    ProcessDocument(ret.files[i], documents_config, max_file_size,
                    supported_types, chunk_size, chunk_overlap,
                    ret.extractions[i], ret.pagess[i], ret.now)

\* C21: when process_documents is given a batch in which some file fails
\* validation or extraction, only that file is aborted: the chunks and the
\* metadata of every other file of the batch, before and after it, are
\* still produced.
C21_FailureAbortsOnlyThatFile ==
    ret.op = "process_documents" =>
        \A i \in 1..Len(ret.files) :
            FileResult(i).outcome = "ok" =>
                /\ ret.outcome = "ok"
                /\ FileResult(i).value.metadata \in Range(ret.value.metadata)
                /\ Range(FileResult(i).value.documents)
                      \subseteq Range(ret.value.documents)

\* C22: a configuration whose chunk_overlap is greater than or equal to its
\* chunk_size is rejected: validate_config returns False for it, and run
\* writes no configuration file unless validate_config returned True and
\* the user then confirmed.
C22_OverlapRejectedBeforeWriting ==
    /\ (ret.op = "validate_config" /\ ret.config # EmptyConfig) =>
           (ret.config.documents.chunk_overlap >= ret.config.documents.chunk_size
               => ret.value = FALSE)
    /\ (ret.op = "run" /\ ret.config # EmptyConfig) =>
           (ret.config.documents.chunk_overlap >= ret.config.documents.chunk_size
               => ~ret.valid /\ generated = {})
    /\ generated # {} =>
           /\ ret.op = "run" /\ ret.valid /\ ret.confirmed /\ call.confirmed
           /\ ret.config.documents.chunk_overlap < ret.config.documents.chunk_size

\* C22 witness: run was given an overlap equal to the chunk size and a
\* confirming user, and returned without writing a file.
C22_Witness ==
    /\ ret.op = "run" /\ call.confirmed
    /\ ret.config # EmptyConfig
    /\ ret.config.documents.chunk_overlap = ret.config.documents.chunk_size
    /\ ret.config.documents.chunk_size > 0
    /\ {p \in Providers : ret.config.ai_services[p].enabled} # {}
    /\ ~ret.valid
    /\ generated = {}

\* The estimate validate_token_limits made of a text in its last call.
Estimated(text) == EstimateTokens(text, ret.tiktoken)

\* What the claim keeps of one input document: the document itself when it
\* is within the ceiling, else those of its sub-chunks that are, in order
\* and with the document's metadata.
KeptOf(doc) ==
    IF Estimated(doc.page_content) <= doc_max_tokens THEN <<doc>>
    ELSE LET sub_chunks == split_text(doc.page_content, chunk_size, chunk_overlap)
         IN SelectSeq([i \in 1..Len(sub_chunks) |->
                          [page_content |-> sub_chunks[i],
                           metadata |-> doc.metadata]],
                      LAMBDA d : Estimated(d.page_content) <= doc_max_tokens)

\* C23: every document returned by validate_token_limits has an estimated
\* token count of at most max_tokens; an input chunk within the ceiling is
\* kept unchanged, an oversized chunk is re-split once and only its
\* sub-chunks within the ceiling are kept, and the relative order of the
\* inputs is preserved.
C23_TokenLimits ==
    ret.op = "validate_token_limits" =>
        /\ \A i \in 1..Len(ret.value) :
               Estimated(ret.value[i].page_content) <= doc_max_tokens
        /\ ret.value = Concat([i \in 1..Len(ret.documents) |->
                                  KeptOf(ret.documents[i])])

\* C23 witness: a call given a document within the ceiling and an oversized
\* one, of whose sub-chunks one was kept and one was dropped.
C23_Witness ==
    /\ ret.op = "validate_token_limits"
    /\ \E i, j \in 1..Len(ret.documents) :
          /\ ret.documents[i].page_content # <<>>
          /\ Estimated(ret.documents[i].page_content) <= doc_max_tokens
          /\ Estimated(ret.documents[j].page_content) > doc_max_tokens
          /\ LET sub_chunks == split_text(ret.documents[j].page_content,
                                          chunk_size, chunk_overlap)
             IN /\ \E k \in 1..Len(sub_chunks) :
                      Estimated(sub_chunks[k]) > doc_max_tokens
                /\ \E k \in 1..Len(sub_chunks) :
                      /\ Estimated(sub_chunks[k]) <= doc_max_tokens
                      /\ [page_content |-> sub_chunks[k],
                          metadata |-> ret.documents[j].metadata]
                            \in Range(ret.value)

\* The value the claim gives an environment text: a number for a numeric
\* string, a boolean for true or false, the text itself otherwise.
EnvValue(text) ==
    IF IsDigit(text) THEN PyInt(ParseInt(text))
    ELSE IF IsDigit(WithoutDots(text)) THEN FloatOf(text)
    ELSE IF Lower(text) = <<"t", "r", "u", "e">> THEN PyBool(TRUE)
    ELSE IF Lower(text) = <<"f", "a", "l", "s", "e">> THEN PyBool(FALSE)
    ELSE PyStr(text)

RECURSIVE PathExists(_, _)
\* The path of names leads to a value of the configuration.
PathExists(current, names) ==
    \/ names = <<>>
    \/ /\ IsDict(current)
       /\ Head(names) \in DOMAIN current.dict
       /\ PathExists(current.dict[Head(names)], Tail(names))

\* C24: after ConfigManager loads, for each of the eight overriding
\* environment variables that is set, get() of the matching dotted key
\* returns the environment value (numeric strings converted to numbers,
\* true/false to booleans) instead of the YAML value; for each that is
\* unset the YAML value is unchanged; and get() of a dotted path that does
\* not exist returns the supplied default without raising.
C24_EnvOverridesYaml ==
    ret.op = "get" =>
        /\ \A i \in 1..Len(EnvOverrides) :
               ret.key = EnvOverrides[i].key =>
                   IF env[EnvOverrides[i].var] # PyNone
                   THEN ret.value = EnvValue(env[EnvOverrides[i].var].str)
                   ELSE ret.value = Get(yaml_config, ret.key, ret.default)
        /\ ~PathExists(config, SplitKey(ret.key)) => ret.value = ret.default

\* C24 witness: CHUNK_SIZE=8 is set over a file that gives chunk_size 1000,
\* and get('documents.chunk_size') returned the number 8.
C24_Witness ==
    /\ ret.op = "get"
    /\ ret.key = Dotted(<<"documents", "chunk_size">>)
    /\ yaml_config = FullYaml
    /\ env["CHUNK_SIZE"] = PyStr(<<"8">>)
    /\ env["VECTOR_DB_TYPE"] = PyNone
    /\ ret.value = PyInt(8)

\* The text the last process_document call extracted from its file.
ExtractedText ==
    IF FileExt(ret.file.name) = Pdf THEN ExtractPdfText(ret.pages)
    ELSE ExtractDocxText(ret.pages)

\* The chunks the last process_document call returned.
ReturnedChunks ==
    [i \in 1..Len(ret.value.documents) |-> ret.value.documents[i].page_content]

RECURSIVE Glued(_)
\* The texts that chunks give when each is appended to the ones before it
\* without a region it shares with the end of its predecessor.
Glued(chunks) ==
    IF chunks = <<>> THEN {<<>>}
    ELSE IF Len(chunks) = 1 THEN {chunks[1]}
    ELSE LET n == Len(chunks)
             prev == chunks[n - 1]
             last == chunks[n]
             shared == {k \in 0..Len(last) :
                          /\ k <= Len(prev)
                          /\ SubSeq(prev, Len(prev) - k + 1, Len(prev))
                             = SubSeq(last, 1, k)}
         IN {g \o SubSeq(last, k + 1, Len(last)) :
                g \in Glued(SubSeq(chunks, 1, n - 1)), k \in shared}

\* C25: for every input text and every chunk_size and chunk_overlap with
\* chunk_overlap < chunk_size, the chunks produced by process_document are
\* each at most chunk_size characters long and their concatenation, after
\* removing the regions that consecutive chunks share, reconstructs the
\* original text.
C25_ChunksReconstructText ==
    (ret.op = "process_document" /\ ret.outcome = "ok"
        /\ chunk_overlap < chunk_size) =>
        /\ \A i \in 1..Len(ReturnedChunks) : Len(ReturnedChunks[i]) <= chunk_size
        /\ ExtractedText \in Glued(ReturnedChunks)

\* The suffixes of a sequence, the empty one included.
Suffixes(s) == {SubSeq(s, k, Len(s)) : k \in 1..(Len(s) + 1)}

\* C26: after any sequence of add_message and trim_to_token_limit calls
\* since the last clear_history, the history is a contiguous suffix of the
\* sequence of messages appended since that clear: the messages kept are
\* the last appended ones, in the order of their appends, and every step
\* leaves a suffix of the history it found, extended by the appended
\* message when it is an add_message.
C26_HistoryIsSuffixOfAppended ==
    /\ [](\A i \in 1..Len(history) :
              history[i].seq = nAppended - Len(history) + i)
    /\ [][IF nAppended' = nAppended + 1
          THEN /\ history' # <<>>
               /\ history'[Len(history')].seq = nAppended'
               /\ history' \in Suffixes(Append(history,
                                                history'[Len(history')]))
          ELSE history' \in Suffixes(history)]_vars

\* C26 witness: messages were evicted or trimmed from the front and some
\* are left, after a trim removed messages.
C26_Witness ==
    /\ ~onlyAppends
    /\ history # <<>>
    /\ history[1].seq > 1
    /\ nAppended = MaxAppends

\* The total_messages of the JSON text the last export returned.
ExportedTotal ==
    ObjGet(ObjGet(JsonLoads(ret.text), <<"metadata">>), <<"total_messages">>).n

\* C27: in every reachable conversation state metadata total_messages is
\* non-negative and at least the length of the history; an add_message
\* raises it by one whether or not the cap evicts messages, a
\* trim_to_token_limit lowers it by exactly the number of messages it
\* removes, and the total_messages written by an export is the metadata
\* value, not the number of exported messages.
C27_TotalMessages ==
    /\ [](/\ metadata.total_messages >= 0
          /\ metadata.total_messages >= Len(history))
    /\ [][IF nAppended' = nAppended + 1
          THEN metadata'.total_messages = metadata.total_messages + 1
          ELSE nAppended' = nAppended =>
                  metadata'.total_messages
                    = metadata.total_messages - (Len(history) - Len(history'))]_vars
    /\ [](ret.op = "export_to_json" =>
              ExportedTotal = metadata.total_messages)

\* C27 witness: a JSON export taken after the cap evicted messages and a
\* trim removed some, with more messages counted than exported, and with
\* messages exported.
C27_Witness ==
    /\ ret.op = "export_to_json"
    /\ ~onlyAppends
    /\ history # <<>>
    /\ metadata.total_messages > Len(history)
    /\ ExportedTotal = metadata.total_messages

\* What get_fallback_service guarantees apart from the clients it leaves: it
\* does not return current, it looks at distinct enabled providers other
\* than current, fewer than there are enabled providers, and it changes no
\* stored configuration.
FallbackKeepsToOthers ==
    /\ ret'.value # ret'.provider
    /\ Len(ret'.examined) <= Len(serviceNames) - 1 \/ ret'.examined = <<>>
    /\ \A i \in 1..Len(ret'.examined) :
          /\ ret'.examined[i] \in Range(serviceNames) \ {ret'.provider}
          /\ \A j \in 1..(i - 1) : ret'.examined[j] # ret'.examined[i]
    /\ DOMAIN services' = DOMAIN services
    /\ \A p \in DOMAIN services : services'[p].config = services[p].config

\* The enabled providers a get_fallback_service step probed: all of them as
\* soon as the loop ran once, since each iteration calls
\* get_available_services.
Probed == IF ret'.examined # <<>> THEN Range(serviceNames) ELSE {}

\* C28 as stated: get_fallback_service(current) never returns current
\* itself, terminates after examining each other enabled provider at most
\* once, does not change any stored service configuration, and leaves a
\* constructed client cached for every enabled provider it probed.
C28_FallbackCachesEveryProbed ==
    [][ret'.op = "get_fallback_service" =>
          /\ FallbackKeepsToOthers
          /\ \A p \in Probed : services'[p].model # NoModel]_vars

\* C28 amended: as above, but a client is left cached for exactly the
\* probed providers whose client can be constructed (or was cached
\* already); a probed provider whose construction raises is left without
\* one.
C28_FallbackCachesConstructible ==
    [][ret'.op = "get_fallback_service" =>
          /\ FallbackKeepsToOthers
          /\ \A p \in Probed :
                services'[p].model # NoModel <=> Constructible(p)
          /\ \A p \in DOMAIN services \ Probed :
                services'[p].model = services[p].model]_vars

\* C28 witness: a get_fallback_service call that looked at two providers
\* and returned one, leaving a client cached for some provider and none
\* for another.
C28_Witness ==
    /\ ret.op = "get_fallback_service"
    /\ Len(ret.examined) >= 2
    /\ ret.value # None
    /\ \E p, q \in DOMAIN services :
          services[p].model # NoModel /\ services[q].model = NoModel

\* C29: when similarity_search is called with a metadata filter, every
\* returned document satisfies that filter, whether or not a similarity
\* threshold is configured and for both backends.
C29_ResultsSatisfyFilter ==
    (ret.op = "similarity_search" /\ ret.args.filter_dict # NoFilter) =>
        \A i \in 1..Len(ret.value) :
            \A key \in DOMAIN ret.args.filter_dict :
                /\ key \in DOMAIN ret.value[i].metadata
                /\ ret.value[i].metadata[key] = ret.args.filter_dict[key]

\* The value a call's request is to carry for a parameter: the one the call
\* passed, or the provider's configured value when it passed none.
OwnValue(passed, p, key, default) ==
    IF passed # NotGiven THEN passed ELSE DictGet(services[p].config, key, default)

\* C30: when several get_completion calls on the same provider are pending
\* at once, each request is issued with the temperature and max_tokens that
\* its own call passed (or the provider's configured values when it passed
\* none), under every interleaving of the calls.
C30_PendingCallsKeepOwnParameters ==
    \A i \in 1..Len(pending) :
        pending[i].request # NoRequest =>
            /\ pending[i].request.temperature
                 = OwnValue(pending[i].temperature, pending[i].provider,
                            "temperature", DefaultTemperature)
            /\ pending[i].request.max_tokens
                 = OwnValue(pending[i].max_tokens, pending[i].provider,
                            "max_tokens", DefaultMaxTokens)

====
